---- MODULE Spec2Model ----
(***************************************************************************)
(* Model of the LUT action service (apps/lut-action).                      *)
(*                                                                         *)
(* Part 1: the job coordinator (services/simpleJobProcessor.ts), the two   *)
(* pipelines it drives (local: frameioProcessor.ts + ffmpeg/applyLUT.ts,   *)
(* remote: remoteFrameioProcessor.ts), the status read (routes/jobs.ts),   *)
(* the trigger (routes/webhooks.ts) and the two periodic sweeps            *)
(* (cleanupOldJobs, StorageService.cleanupExpiredFiles).                   *)
(*                                                                         *)
(* One step of the model is one uninterrupted run of JavaScript between    *)
(* two suspension points (await) of a task, or one whole handler.          *)
(* Time is counted in hours.                                               *)
(***************************************************************************)
EXTENDS Integers, Sequences, FiniteSets, TLC

----------------------------------------------------------------------------
\* Bounds of the model

\* the clock stops here
MaxTime == 25

\* job ids handed out by randomUUID, asset ids a trigger may name
JobIds == {"job_1", "job_2"}
AssetIds == {"a1", "a2"}

\* the amounts (hours) by which the clock advances while pipelines are in
\* flight: their sums give ages of 12, 13, 24 and 25 hours, that is above the
\* sweep age and below, at and above the retention window of a day
TickSteps == {12, 13}

\* the amount by which the clock advances between pipelines
QuietSteps == {25}

\* the job ids of the specification that lets time pass during a pipeline
TimedJobIds == {"job_1"}

----------------------------------------------------------------------------
\* Program constants (hours)

\* cleanupOldJobs: const ONE_DAY = 24 * 60 * 60 * 1000
ONE_DAY == 24

\* cleanupExpiredFiles: ageMs > 2 * 60 * 60 * 1000
SweepAge == 2

Undefined == "undefined"

\* JavaScript truthiness of an optional string / object argument
Truthy(v) == v \notin {Undefined, ""}

Modes == {"local", "remote"}

----------------------------------------------------------------------------
\* Paths.  A path is a sequence of components, a component a sequence of
\* strings (its concatenated pieces).

Sub(dir, name) == Append(dir, name)

\* config.TMP_DIR and the directories derived from it
TMP_DIR == << <<"tmp">> >>
TEMP_UPLOAD_DIR == Sub(TMP_DIR, <<"uploads">>)
TEMP_PROCESSING_DIR == Sub(TMP_DIR, <<"processing">>)

\* processJobAsync (local): path.join(config.TMP_DIR, jobId)
tempDir(j) == Sub(TMP_DIR, <<j>>)
\* downloadAsset: path.join(tempDir, `input_${assetId}${ext}`)
inputPath(j, a) == Sub(tempDir(j), <<"input_", a>>)
\* processJobAsync: path.join(tempDir, `processed_${name of inputPath}${ext}`)
outputPath(j, a) == Sub(tempDir(j), <<"processed_", "input_", a>>)
\* applyLUT: join(TEMP_PROCESSING_DIR, options.jobId)
applyTempDir(j) == Sub(TEMP_PROCESSING_DIR, <<j>>)
\* applyLUT: join(tempDir, `input_${uuidv4()}...`); one call per job, so the
\* fresh uuid is named after the job
applyInputPath(j) == Sub(applyTempDir(j), <<"input_", "uuid", j>>)
\* processVideoRemotely: path.join(config.TMP_DIR, `processed_${assetId}${ext}`)
remoteOutputPath(a) == Sub(TMP_DIR, <<"processed_", a>>)

Paths ==
  {TMP_DIR, TEMP_UPLOAD_DIR, TEMP_PROCESSING_DIR}
    \cup {tempDir(j) : j \in JobIds}
    \cup {applyTempDir(j) : j \in JobIds}
    \cup {applyInputPath(j) : j \in JobIds}
    \cup {inputPath(j, a) : j \in JobIds, a \in AssetIds}
    \cup {outputPath(j, a) : j \in JobIds, a \in AssetIds}
    \cup {remoteOutputPath(a) : a \in AssetIds}

IsPrefix(d, p) == Len(d) <= Len(p) /\ SubSeq(p, 1, Len(d)) = d
Parent(p) == SubSeq(p, 1, Len(p) - 1)

\* the entries cleanupExpiredFiles stats: those directly inside the two
\* directories it lists.  No other mtime is ever read by the program.
SweptEntries ==
  {p \in Paths : Parent(p) \in {TEMP_PROCESSING_DIR, TEMP_UPLOAD_DIR}}


----------------------------------------------------------------------------
\* State

VARIABLES
  mode,        \* config.PROCESSING_MODE, fixed at start-up
  now,         \* the clock, hours
  jobs,        \* keys of the job table (const jobs = new Map)
  rec,         \* the record objects of the job table, by job id
  request,     \* request.assetId of each job
  pc,          \* the suspension point each job's background task waits at
  thrown,      \* message of the exception a job's pipeline has thrown
  trigger,     \* the promise processLUTJob returned to the webhook handler
  fs,          \* the filesystem under config.TMP_DIR: what each path is
  mtime,       \* stats.mtimeMs of the entries the storage sweep looks at
  heldRef,     \* the value getJobStatus last returned (a record object)
  lutPath,     \* processJobAsync: the LUT each job resolved (its storageUri)
  events,      \* the Frame.io calls of each job's upload phase, with outcome
  luts,        \* LUTService.luts, the registry: descriptors by id
  lutFiles,    \* the files in LUT_STORAGE_DIR: content by LUT id
  calls,       \* the calls of createLUT: arguments, locals and position
  deleting,    \* hard deletes suspended at `await unlink(lut.storageUri)`
  arg,         \* the argument of a call of validateLUT or verifySignature
  ret          \* what that call answered

vars ==
  <<mode, now, jobs, rec, request, pc, thrown, trigger, fs, mtime, heldRef,
    lutPath, events, luts, lutFiles, calls, deleting, arg, ret>>

\* the state of the LUT service
otherVars == <<luts, lutFiles, calls, deleting, arg, ret>>

\* locals of a job's task beside its position
taskVars == <<lutPath, events>>

\* LUT ids (uuidv4) and file contents; the hash of a content is the content
\* uploadUrls.length of the file createFile made for the output
Chunks == 2

LutIds == {"lut_1", "lut_2", "lut_3"}
Contents == {"bytes_1", "bytes_2", "bad_bytes"}
Names == {"name_1", "name_2"}

\* the callers of createLUT, one call each
Callers == {"c1", "c2"}

\* deletedAt: null
Null == -1

\* a LUTDescriptor, as far as the service reads it again
Descriptor(id, name, hash) ==
  [id |-> id, name |-> name, hash |-> hash, deletedAt |-> Null]

\* a lookup that does not look at deletedAt
getLUT_ignoreDeleted(r, lutId) ==
  IF lutId \in DOMAIN r THEN lutId ELSE Undefined

\* LUTService.getLUT(lutId) on the registry r: the descriptor, or null
\* (here: no id) when it is missing or soft-deleted
getLUT(r, lutId) ==
  IF lutId \in DOMAIN r /\ r[lutId].deletedAt = Null THEN lutId ELSE Undefined

NoRec ==
  [status |-> "none", result |-> Undefined, error |-> Undefined,
   createdAt |-> 0, updatedAt |-> 0]

NoRef == "noref"

\* the JobResult of a job (outputAssetId, lutApplied, ...)
JobResult(j) == "result"

----------------------------------------------------------------------------
\* Filesystem operations

Exists(f, p) == f[p] # "absent"

\* create or overwrite p
Touch(f, p, kind) == [f EXCEPT ![p] = kind]

\* fs.mkdir(p, { recursive: true }): no effect on an existing directory
Mkdir(f, p) == IF Exists(f, p) THEN f ELSE Touch(f, p, "dir")

\* fs.unlink(p)
Unlink(f, p) == [f EXCEPT ![p] = "absent"]

\* fs.rm(p, { recursive: true, force: true })
RemoveTree(f, p) == [q \in Paths |-> IF IsPrefix(p, q) THEN "absent" ELSE f[q]]

\* readdir(dir), as full paths
Readdir(f, dir) ==
  {p \in Paths : Len(p) = Len(dir) + 1 /\ IsPrefix(dir, p) /\ Exists(f, p)}

\* the mtimes after the filesystem went from f to g: a new entry is stamped
\* with the time, and so is a directory that gained or lost an entry
mtimeAfter(m, f, g) ==
  [p \in SweptEntries |->
     IF ~Exists(g, p) THEN 0
     ELSE IF ~Exists(f, p) THEN now
     ELSE IF \E q \in Paths : Parent(q) = p /\ Exists(f, q) # Exists(g, q)
       THEN now
     ELSE m[p]]

FsBecomes(g) == fs' = g /\ mtime' = mtimeAfter(mtime, fs, g)

FsUnchanged == UNCHANGED <<fs, mtime>>

----------------------------------------------------------------------------
\* Job table

\* updateJobStatus without `if (result) job.result = result`
updateJobStatus_noResult(r, js, jobId, status, result, error) ==
  IF jobId \in js
    THEN [r EXCEPT ![jobId] =
            [@ EXCEPT !.status = status,
                      !.updatedAt = now,
                      !.error = IF Truthy(error) THEN error ELSE @]]
    ELSE r

\* updateJobStatus without `if (job)`: the record is written whether or not
\* the table has it
updateJobStatus_unchecked(r, js, jobId, status, result, error) ==
  [r EXCEPT ![jobId] =
     [@ EXCEPT !.status = status,
               !.updatedAt = now,
               !.result = IF Truthy(result) THEN result ELSE @,
               !.error = IF Truthy(error) THEN error ELSE @]]

\* updateJobStatus without `if (error) job.error = error`
updateJobStatus_noError(r, js, jobId, status, result, error) ==
  IF jobId \in js
    THEN [r EXCEPT ![jobId] =
            [@ EXCEPT !.status = status,
                      !.updatedAt = now,
                      !.result = IF Truthy(result) THEN result ELSE @]]
    ELSE r

\* updateJobStatus(jobId, status, result?, error?) on the record objects r
\* with table keys js
updateJobStatus(r, js, jobId, status, result, error) ==
  IF jobId \in js
    THEN [r EXCEPT ![jobId] =
            [@ EXCEPT !.status = status,
                      !.updatedAt = now,
                      !.result = IF Truthy(result) THEN result ELSE @,
                      !.error = IF Truthy(error) THEN error ELSE @]]
    ELSE r

\* the job coordinator, the filesystem and the clock at start-up
JobsInit ==
  /\ mode \in Modes
  /\ now = 0
  /\ jobs = {}
  /\ rec = [j \in JobIds |-> NoRec]
  /\ request = [j \in JobIds |-> Undefined]
  /\ pc = [j \in JobIds |-> "none"]
  /\ thrown = [j \in JobIds |-> Undefined]
  /\ trigger = [j \in JobIds |-> "none"]
  /\ fs = [p \in Paths |->
             IF p \in {TMP_DIR, TEMP_UPLOAD_DIR, TEMP_PROCESSING_DIR}
               THEN "dir" ELSE "absent"]
  /\ mtime = [p \in SweptEntries |-> 0]
  /\ heldRef = NoRef
  /\ lutPath = [j \in JobIds |-> Undefined]
  /\ events = [j \in JobIds |-> <<>>]

\* a caller that has not called createLUT
NoCall ==
  [pc |-> "idle", buffer |-> Undefined, name |-> Undefined,
   lutId |-> Undefined, ret |-> Undefined, after |-> {}]

\* LUTService.initialize with a registry.json that holds one LUT
RegistryInit ==
  /\ luts = [l \in {"lut_1"} |-> Descriptor(l, "name_1", "bytes_1")]
  /\ lutFiles = [l \in {"lut_1"} |-> "bytes_1"]
  /\ calls = [c \in Callers |-> NoCall]
  /\ deleting = {}

\* a call that has not answered
Pending == [done |-> FALSE]

Init ==
  /\ JobsInit
  /\ RegistryInit
  /\ arg = Undefined
  /\ ret = Pending

----------------------------------------------------------------------------
\* Frame conditions shared by the steps of a job's task

confVars == <<mode, now>>
readerVars == <<heldRef>>

\* the task of job j moves on to the suspension point `next`
Proceed(j, next) ==
  /\ pc' = [pc EXCEPT ![j] = next]
  /\ UNCHANGED <<thrown, rec>>

\* processJobAsync, catch (error): the failure is recorded on the record and
\* rethrown, which rejects the task's promise
Catch(j, msg) ==
  /\ thrown' = [thrown EXCEPT ![j] = msg]
  /\ rec' = updateJobStatus(rec, jobs, j, "failed", Undefined, msg)
  /\ pc' = [pc EXCEPT ![j] = "rejected"]

\* an exception inside the local-mode try block: the finally block runs
\* (await fs.rm) before the outer catch
LocalFail(j, msg) ==
  /\ thrown' = [thrown EXCEPT ![j] = msg]
  /\ pc' = [pc EXCEPT ![j] = "l_finally"]
  /\ UNCHANGED rec

\* A promise reaction that is already queued (the continuation of the
\* webhook handler's await, the .catch handler of a rejected task) runs before
\* the event loop takes the next I/O completion or timer.
MicrotaskPending ==
  \E j \in JobIds : trigger[j] = "resolved" \/ pc[j] = "rejected"

----------------------------------------------------------------------------
\* Trigger: POST /webhooks/frameio/custom-action and processLUTJob

\* `job_${randomUUID()}`: an id no job has had; which one is immaterial
FreshJobId == CHOOSE j \in {k \in JobIds : pc[k] = "none"} : TRUE

\* processLUTJob awaiting processJobAsync instead of detaching it: the job
\* id is not handed back when the synchronous head ends
ReturnJobId_awaitTask(t, j) == t

\* processLUTJob: return jobId (the promise the handler awaits resolves)
ReturnJobId(t, j) == [t EXCEPT ![j] = "resolved"]

\* the LUT file the task of job j holds the path of is in LUT_STORAGE_DIR
LutFileExists(j) == lutPath[j] \in DOMAIN lutFiles

\* processLUTJob with a processJobAsync that suspends before it updates the
\* status: the record is left as it was stored
StartJob_pending(j, a) ==
  /\ ~MicrotaskPending
  /\ pc[j] = "none"
  /\ j = FreshJobId
  /\ jobs' = jobs \cup {j}
  /\ request' = [request EXCEPT ![j] = a]
  /\ rec' = [rec EXCEPT ![j] =
                [status |-> "pending", result |-> Undefined,
                 error |-> Undefined, createdAt |-> now,
                 updatedAt |-> now]]
  /\ pc' = [pc EXCEPT ![j] = "getLUT"]
  /\ trigger' = ReturnJobId(trigger, j)
  /\ FsUnchanged
  /\ UNCHANGED <<thrown, readerVars, confVars>>
  /\ UNCHANGED taskVars

\* processLUTJob(request), with the synchronous head of processJobAsync: the
\* record is stored as pending, processJobAsync is called and runs up to its
\* first await (updateJobStatus(jobId, 'processing'), then await import), and
\* the job id is returned
StartJob(j, a) ==
  /\ ~MicrotaskPending
  /\ pc[j] = "none"
  /\ j = FreshJobId
  /\ jobs' = jobs \cup {j}
  /\ request' = [request EXCEPT ![j] = a]
  /\ LET stored == [rec EXCEPT ![j] =
                      [status |-> "pending", result |-> Undefined,
                       error |-> Undefined, createdAt |-> now,
                       updatedAt |-> now]]
     IN rec' = updateJobStatus(stored, jobs \cup {j}, j, "processing",
                               Undefined, Undefined)
  /\ pc' = [pc EXCEPT ![j] = "getLUT"]
  /\ trigger' = ReturnJobId(trigger, j)
  /\ FsUnchanged
  /\ UNCHANGED <<thrown, readerVars, confVars>>
  /\ UNCHANGED taskVars

\* processLUTJob called with nothing else going on in the same step
ProcessLUTJob(j, a) ==
  /\ StartJob(j, a)
  /\ UNCHANGED otherVars

\* the webhook handler's continuation after `await processLUTJob(...)`:
\* res.json({ title: 'LUT Processing Started', ... })
TriggerRespond(j) ==
  /\ trigger[j] = "resolved"
  /\ trigger' = [trigger EXCEPT ![j] = "responded"]
  /\ FsUnchanged
  /\ UNCHANGED <<jobs, rec, request, pc, thrown, readerVars, confVars>>
  /\ UNCHANGED <<otherVars, taskVars>>

\* a .catch that runs the job again instead of recording the failure
ProcessLUTJobCatch_retry(j) ==
  /\ pc[j] = "rejected"
  /\ rec' = updateJobStatus(rec, jobs, j, "processing", Undefined, Undefined)
  /\ pc' = [pc EXCEPT ![j] = "getLUT"]
  /\ FsUnchanged
  /\ UNCHANGED <<jobs, request, thrown, trigger, readerVars, confVars>>
  /\ UNCHANGED <<otherVars, taskVars>>

\* processLUTJob: processJobAsync(...).catch(error => updateJobStatus(jobId,
\* 'failed', undefined, error.message))
ProcessLUTJobCatch(j) ==
  /\ pc[j] = "rejected"
  /\ rec' = updateJobStatus(rec, jobs, j, "failed", Undefined, thrown[j])
  /\ pc' = [pc EXCEPT ![j] = "done"]
  /\ FsUnchanged
  /\ UNCHANGED <<jobs, request, thrown, trigger, readerVars, confVars>>
  /\ UNCHANGED <<otherVars, taskVars>>

----------------------------------------------------------------------------
\* processJobAsync, step 1: the LUT is resolved

\* await import('./lutService.js'); await lutService.getLUT(request.lutId),
\* lutId being the request's; if (!lut) throw; lutPath = lut.storageUri
GetLUT(j) ==
  /\ ~MicrotaskPending
  /\ pc[j] = "getLUT"
  /\ \E lutId \in LutIds :
       IF getLUT(luts, lutId) # Undefined
         THEN /\ Proceed(j, IF mode = "remote" THEN "r_access" ELSE "l_mkdir")
              /\ lutPath' = [lutPath EXCEPT ![j] = getLUT(luts, lutId)]
         ELSE /\ Catch(j, "LUT not found")
              /\ UNCHANGED lutPath
  /\ FsUnchanged
  /\ UNCHANGED <<jobs, request, trigger, readerVars, confVars>>
  /\ UNCHANGED <<otherVars, events>>

----------------------------------------------------------------------------
\* processJobAsync, local mode

jobFrame == <<jobs, request, trigger, readerVars, confVars>>

\* await fs.mkdir(tempDir, { recursive: true })
LocalMkdir(j) ==
  /\ ~MicrotaskPending
  /\ pc[j] = "l_mkdir"
  /\ \/ /\ FsBecomes(Mkdir(fs, tempDir(j)))
        /\ Proceed(j, "l_download")
     \/ /\ LocalFail(j, "mkdir failed")
        /\ FsUnchanged
  /\ UNCHANGED jobFrame
  /\ UNCHANGED <<otherVars, taskVars>>

\* await downloadAsset(assetId, tempDir, accountId): the asset lookups may
\* fail before the file exists, the stream may fail after it was created
LocalDownload(j) ==
  /\ ~MicrotaskPending
  /\ pc[j] = "l_download"
  /\ \/ /\ FsBecomes(Touch(fs, inputPath(j, request[j]), "file"))
        /\ \/ Proceed(j, "l_probe")
           \/ LocalFail(j, "download failed")
     \/ /\ LocalFail(j, "asset lookup failed")
        /\ FsUnchanged
  /\ UNCHANGED jobFrame
  /\ UNCHANGED <<otherVars, taskVars>>

\* await fs.stat(inputPath); await getVideoMetadata(inputPath); on success
\* applyLUT is called and runs up to its await mkdir(tempDir)
LocalProbe(j) ==
  /\ ~MicrotaskPending
  /\ pc[j] = "l_probe"
  /\ \/ Proceed(j, "a_mkdir")
     \/ LocalFail(j, "FFprobe failed")
  /\ FsUnchanged
  /\ UNCHANGED jobFrame
  /\ UNCHANGED <<otherVars, taskVars>>

\* applyLUT: await mkdir(join(TEMP_PROCESSING_DIR, jobId)), before its try
ApplyMkdir(j) ==
  /\ ~MicrotaskPending
  /\ pc[j] = "a_mkdir"
  /\ \/ /\ FsBecomes(Mkdir(fs, applyTempDir(j)))
        /\ Proceed(j, "a_copy")
     \/ /\ LocalFail(j, "mkdir failed")
        /\ FsUnchanged
  /\ UNCHANGED jobFrame
  /\ UNCHANGED <<otherVars, taskVars>>

\* an exception inside applyLUT's try block: its catch runs (await unlink)
ApplyFail(j, msg) ==
  /\ thrown' = [thrown EXCEPT ![j] = msg]
  /\ pc' = [pc EXCEPT ![j] = "a_catch"]
  /\ UNCHANGED rec

\* applyLUT: await copyFile(sourcePath, inputPath) for a file:// input
ApplyCopy(j) ==
  /\ ~MicrotaskPending
  /\ pc[j] = "a_copy"
  /\ \/ /\ FsBecomes(Touch(fs, applyInputPath(j), "file"))
        /\ \/ Proceed(j, "a_probe")
           \/ ApplyFail(j, "copy failed")
     \/ /\ ApplyFail(j, "copy failed")
        /\ FsUnchanged
  /\ UNCHANGED jobFrame
  /\ UNCHANGED <<otherVars, taskVars>>

\* applyLUT: await getVideoMetadata(inputPath)
ApplyProbe(j) ==
  /\ ~MicrotaskPending
  /\ pc[j] = "a_probe"
  /\ \/ Proceed(j, "a_ffmpeg")
     \/ ApplyFail(j, "FFprobe failed")
  /\ FsUnchanged
  /\ UNCHANGED jobFrame
  /\ UNCHANGED <<otherVars, taskVars>>

\* applyLUT: await runFFmpeg(...), which writes options.outputPath; then
\* statSync(outputPath) and the call of unlink(inputPath)
ApplyFFmpeg(j) ==
  /\ ~MicrotaskPending
  /\ pc[j] = "a_ffmpeg"
  /\ \/ /\ FsBecomes(Touch(fs, outputPath(j, request[j]), "file"))
        /\ \/ LutFileExists(j) /\ Proceed(j, "a_unlink")
           \/ ApplyFail(j, "FFmpeg exited with code 1")
     \/ /\ ApplyFail(j, "FFmpeg spawn error")
        /\ FsUnchanged
  /\ UNCHANGED jobFrame
  /\ UNCHANGED <<otherVars, taskVars>>

\* runFFmpeg: the spawned process stalls, that is it will emit neither close
\* nor error; runFFmpeg arms no timer, so its promise never settles
ApplyFFmpegStall(j) ==
  /\ ~MicrotaskPending
  /\ pc[j] = "a_ffmpeg"
  /\ Proceed(j, "a_stalled")
  /\ FsUnchanged
  /\ UNCHANGED jobFrame
  /\ UNCHANGED <<otherVars, taskVars>>

\* applyLUT: await unlink(inputPath), then return result; processJobAsync
\* goes on to await fs.stat(outputPath)
ApplyUnlink(j) ==
  /\ ~MicrotaskPending
  /\ pc[j] = "a_unlink"
  /\ \/ /\ FsBecomes(Unlink(fs, applyInputPath(j)))
        /\ Proceed(j, "l_statout")
     \/ /\ ApplyFail(j, "unlink failed")
        /\ FsUnchanged
  /\ UNCHANGED jobFrame
  /\ UNCHANGED <<otherVars, taskVars>>

\* applyLUT, catch: if (existsSync(inputPath)) await unlink(inputPath), a
\* failure of which is logged; outputPath was passed in and is left alone;
\* throw error
ApplyCatch(j) ==
  /\ ~MicrotaskPending
  /\ pc[j] = "a_catch"
  /\ \/ FsBecomes(Unlink(fs, applyInputPath(j)))
     \/ FsUnchanged
  /\ LocalFail(j, thrown[j])
  /\ UNCHANGED jobFrame
  /\ UNCHANGED <<otherVars, taskVars>>

\* await fs.stat(outputPath); updateJobStatus(jobId, 'uploading'); the call
\* of uploadProcessedVideo, up to its first await
LocalStatOut(j) ==
  /\ ~MicrotaskPending
  /\ pc[j] = "l_statout"
  /\ IF Exists(fs, outputPath(j, request[j]))
       THEN /\ rec' = updateJobStatus(rec, jobs, j, "uploading", Undefined,
                                      Undefined)
                      /\ pc' = [pc EXCEPT ![j] = "u_create"]
                      /\ UNCHANGED thrown
       ELSE /\ LocalFail(j, "ENOENT")
  /\ FsUnchanged
  /\ UNCHANGED jobFrame
  /\ UNCHANGED <<otherVars, taskVars>>

\* uploadProcessedVideo: fs.stat, getAsset, the parent folder, createFile and
\* the check of its upload URLs
UploadCreateFile(j) ==
  /\ ~MicrotaskPending
  /\ pc[j] = "u_create"
  /\ \/ Proceed(j, "u_media")
     \/ LocalFail(j, "No upload URLs provided for new file")
  /\ FsUnchanged
  /\ UNCHANGED jobFrame
  /\ UNCHANGED <<otherVars, taskVars>>

\* a Frame.io call of job j's upload phase ends with the outcome `e`
Logged(j, e) == events' = [events EXCEPT ![j] = Append(@, e)]

\* uploadMedia, the loop over uploadUrls: the PUT of each of the first k
\* chunks is answered with success; `last` is <<>>, or the answer to the
\* next PUT when that one is not a success
PutChunks(j, k, last) ==
  events' = [events EXCEPT ![j] = @ \o [i \in 1..k |-> "chunk ok"] \o last]

\* what uploadMedia throws when a PUT fails: its own error for a response
\* that is not ok, fetch's error when the request did not get through
UploadErrors == {"Upload failed with status 500: errorText", "fetch failed"}

\* uploadMedia not looking at response.ok: the loop goes on after a PUT that
\* was refused and the upload ends as a success
UploadMedia_ignoreStatus(j) ==
  /\ ~MicrotaskPending
  /\ pc[j] = "u_media"
  /\ Proceed(j, "u_version")
  /\ \/ PutChunks(j, Chunks, <<>>)
     \/ \E k \in 0..(Chunks - 1) : PutChunks(j, k, <<"chunk failed">>)
  /\ FsUnchanged
  /\ UNCHANGED jobFrame
  /\ UNCHANGED <<otherVars, lutPath>>

\* uploadProcessedVideo: await frameioService.uploadMedia(...)
UploadMedia(j) ==
  /\ ~MicrotaskPending
  /\ pc[j] = "u_media"
  /\ \/ Proceed(j, "u_version") /\ PutChunks(j, Chunks, <<>>)
     \/ /\ \E e \in UploadErrors : LocalFail(j, e)
        /\ \E k \in 0..(Chunks - 1) : PutChunks(j, k, <<"chunk failed">>)
  /\ FsUnchanged
  /\ UNCHANGED jobFrame
  /\ UNCHANGED <<otherVars, lutPath>>

\* uploadProcessedVideo: await frameioService.createVersionStack(...)
UploadVersionStack(j) ==
  /\ ~MicrotaskPending
  /\ pc[j] = "u_version"
  /\ \/ Proceed(j, "u_comment") /\ Logged(j, "createVersionStack ok")
     \/ /\ LocalFail(j, "version stack failed")
        /\ Logged(j, "createVersionStack failed")
  /\ FsUnchanged
  /\ UNCHANGED jobFrame
  /\ UNCHANGED <<otherVars, lutPath>>

\* uploadProcessedVideo with the try around postComment removed: the failure
\* of the comment leaves the try block as any other failure of the upload
UploadComment_propagate(j) ==
  /\ ~MicrotaskPending
  /\ pc[j] = "u_comment"
  /\ \/ /\ Logged(j, "postComment ok")
        /\ rec' = updateJobStatus(rec, jobs, j, "completed", JobResult(j),
                                  Undefined)
        /\ pc' = [pc EXCEPT ![j] = "l_finally"]
        /\ UNCHANGED thrown
     \/ /\ Logged(j, "postComment failed")
        /\ LocalFail(j, "Failed to post comment")
  /\ FsUnchanged
  /\ UNCHANGED jobFrame
  /\ UNCHANGED <<otherVars, lutPath>>

\* uploadProcessedVideo: await postComment(...) in its own try, whose failure
\* is logged only; return; updateJobStatus(jobId, 'completed', result); the
\* finally block's call of fs.rm
UploadComment(j) ==
  /\ ~MicrotaskPending
  /\ pc[j] = "u_comment"
  /\ \E e \in {"postComment ok", "postComment failed"} : Logged(j, e)
  /\ rec' = updateJobStatus(rec, jobs, j, "completed", JobResult(j), Undefined)
  /\ pc' = [pc EXCEPT ![j] = "l_finally"]
  /\ FsUnchanged
  /\ UNCHANGED <<thrown, jobFrame>>
  /\ UNCHANGED <<otherVars, lutPath>>

\* finally: await fs.rm(tempDir, { recursive: true, force: true }), a failure
\* of which is logged only; with an exception pending the outer catch follows
LocalFinally(j) ==
  /\ ~MicrotaskPending
  /\ pc[j] = "l_finally"
  /\ \/ FsBecomes(RemoveTree(fs, tempDir(j)))
     \/ FsUnchanged
  /\ IF thrown[j] # Undefined
       THEN Catch(j, thrown[j])
       ELSE Proceed(j, "done")
  /\ UNCHANGED jobFrame
  /\ UNCHANGED <<otherVars, taskVars>>

----------------------------------------------------------------------------
\* processJobAsync, remote mode: processVideoRemotely.  Its own catch only
\* logs and rethrows, so a failure reaches the catch of processJobAsync in the
\* same step.

\* await fs.access(lutPath, fs.constants.R_OK)
RemoteAccess(j) ==
  /\ ~MicrotaskPending
  /\ pc[j] = "r_access"
  /\ \/ LutFileExists(j) /\ Proceed(j, "r_asset")
     \/ Catch(j, "LUT file not accessible")
  /\ FsUnchanged
  /\ UNCHANGED jobFrame
  /\ UNCHANGED <<otherVars, taskVars>>

\* getAsset, getMediaLinksOriginal, the parent check and
\* await fs.mkdir(config.TMP_DIR), which exists since start-up; then ffmpeg is
\* spawned on the download URL
RemoteAsset(j) ==
  /\ ~MicrotaskPending
  /\ pc[j] = "r_asset"
  /\ \/ Proceed(j, "r_ffmpeg")
     \/ Catch(j, "Original asset has no parent")
  /\ FsUnchanged
  /\ UNCHANGED jobFrame
  /\ UNCHANGED <<otherVars, taskVars>>

\* the ffmpeg promise settles: exit code 0, or a non-zero code or the timeout
\* with the output file (-y) already created, or a spawn error without it;
\* the error of a non-zero code ends with errorOutput, the text read from
\* stderr
RemoteFFmpeg(j) ==
  /\ ~MicrotaskPending
  /\ pc[j] = "r_ffmpeg"
  /\ \/ /\ FsBecomes(Touch(fs, remoteOutputPath(request[j]), "file"))
        /\ \/ LutFileExists(j) /\ Proceed(j, "r_stat")
           \/ Catch(j, "FFmpeg exited with code 1: errorOutput")
     \/ /\ Catch(j, "FFmpeg spawn error")
        /\ FsUnchanged
  /\ UNCHANGED jobFrame
  /\ UNCHANGED <<otherVars, taskVars>>

\* processVideoRemotely: the spawned process stalls, that is it will emit
\* neither close nor error
RemoteFFmpegStall(j) ==
  /\ ~MicrotaskPending
  /\ pc[j] = "r_ffmpeg"
  /\ Proceed(j, "r_stalled")
  /\ FsUnchanged
  /\ UNCHANGED jobFrame
  /\ UNCHANGED <<otherVars, taskVars>>

\* processVideoRemotely: processTimeout fires after 5 minutes:
\* ffmpeg.kill('SIGTERM') and reject(new Error('FFmpeg processing timeout
\* after 5 minutes')); the process may have created its output by then
RemoteFFmpegTimeout(j) ==
  /\ ~MicrotaskPending
  /\ pc[j] = "r_stalled"
  /\ \/ FsBecomes(Touch(fs, remoteOutputPath(request[j]), "file"))
     \/ FsUnchanged
  /\ Catch(j, "FFmpeg processing timeout after 5 minutes")
  /\ UNCHANGED jobFrame
  /\ UNCHANGED <<otherVars, taskVars>>

\* await fs.stat(outputPath), then the call of createFile
RemoteStat(j) ==
  /\ ~MicrotaskPending
  /\ pc[j] = "r_stat"
  /\ IF Exists(fs, remoteOutputPath(request[j]))
       THEN Proceed(j, "r_create")
       ELSE Catch(j, "ENOENT")
  /\ FsUnchanged
  /\ UNCHANGED jobFrame
  /\ UNCHANGED <<otherVars, taskVars>>

\* await frameioService.createFile(...) and the check of its upload URLs
RemoteCreateFile(j) ==
  /\ ~MicrotaskPending
  /\ pc[j] = "r_create"
  /\ \/ Proceed(j, "r_media")
     \/ Catch(j, "No upload URLs provided for new file")
  /\ FsUnchanged
  /\ UNCHANGED jobFrame
  /\ UNCHANGED <<otherVars, taskVars>>

\* processVideoRemotely going on to the version stack after an upload that
\* threw
RemoteUploadMedia_goOn(j) ==
  /\ ~MicrotaskPending
  /\ pc[j] = "r_media"
  /\ \/ /\ Exists(fs, remoteOutputPath(request[j]))
        /\ Proceed(j, "r_version")
        /\ \/ PutChunks(j, Chunks, <<>>)
           \/ \E k \in 0..(Chunks - 1) : PutChunks(j, k, <<"chunk failed">>)
     \/ /\ ~Exists(fs, remoteOutputPath(request[j]))
        /\ Catch(j, "ENOENT")
        /\ UNCHANGED events
  /\ FsUnchanged
  /\ UNCHANGED jobFrame
  /\ UNCHANGED <<otherVars, lutPath>>

\* await frameioService.uploadMedia(uploadUrls, outputPath, ...), which
\* opens outputPath
RemoteUploadMedia(j) ==
  /\ ~MicrotaskPending
  /\ pc[j] = "r_media"
  /\ \/ /\ Exists(fs, remoteOutputPath(request[j]))
        /\ Proceed(j, "r_version")
        /\ PutChunks(j, Chunks, <<>>)
     \/ /\ Exists(fs, remoteOutputPath(request[j]))
        /\ \E e \in UploadErrors : Catch(j, e)
        /\ \E k \in 0..(Chunks - 1) : PutChunks(j, k, <<"chunk failed">>)
     \/ /\ ~Exists(fs, remoteOutputPath(request[j]))
        /\ Catch(j, "ENOENT")
        /\ UNCHANGED events
  /\ FsUnchanged
  /\ UNCHANGED jobFrame
  /\ UNCHANGED <<otherVars, lutPath>>

\* await frameioService.createVersionStack(...)
RemoteVersionStack(j) ==
  /\ ~MicrotaskPending
  /\ pc[j] = "r_version"
  /\ \/ Proceed(j, "r_comment") /\ Logged(j, "createVersionStack ok")
     \/ /\ Catch(j, "version stack failed")
        /\ Logged(j, "createVersionStack failed")
  /\ FsUnchanged
  /\ UNCHANGED jobFrame
  /\ UNCHANGED <<otherVars, lutPath>>

\* await postComment(...) in its own try, whose failure is logged only
RemoteComment(j) ==
  /\ ~MicrotaskPending
  /\ pc[j] = "r_comment"
  /\ \E e \in {"postComment ok", "postComment failed"} : Logged(j, e)
  /\ Proceed(j, "r_unlink")
  /\ FsUnchanged
  /\ UNCHANGED jobFrame
  /\ UNCHANGED <<otherVars, lutPath>>

\* await fs.unlink(outputPath) in its own try, whose failure is logged only;
\* return; processJobAsync: updateJobStatus(jobId, 'completed', result)
RemoteUnlink(j) ==
  /\ ~MicrotaskPending
  /\ pc[j] = "r_unlink"
  /\ \/ FsBecomes(Unlink(fs, remoteOutputPath(request[j])))
     \/ FsUnchanged
  /\ rec' = updateJobStatus(rec, jobs, j, "completed", JobResult(j), Undefined)
  /\ pc' = [pc EXCEPT ![j] = "done"]
  /\ UNCHANGED <<thrown, jobFrame>>
  /\ UNCHANGED <<otherVars, taskVars>>

----------------------------------------------------------------------------
\* Status read

\* getJobStatus(jobId): return jobs.get(jobId), the record object itself or
\* undefined; GET /jobs/:id serialises what it got in the same step
GetJobStatus(j) ==
  /\ ~MicrotaskPending
  /\ heldRef' = IF j \in jobs THEN j ELSE NoRef
  /\ FsUnchanged
  /\ UNCHANGED <<jobs, rec, request, pc, thrown, trigger, confVars>>
  /\ UNCHANGED <<otherVars, taskVars>>

----------------------------------------------------------------------------
\* LUTService

jobVars ==
  <<mode, now, jobs, rec, request, pc, thrown, trigger, fs, mtime, heldRef,
    lutPath, events>>

\* a function without the key k (Map.delete, unlink)
Without(f, k) == [x \in DOMAIN f \ {k} |-> f[x]]

\* a function with the key k set to v (Map.set, writeFile)
With(f, k, v) == [x \in DOMAIN f \cup {k} |-> IF x = k THEN v ELSE f[x]]

\* listLUTs(includeDeleted): the ids of the descriptors returned
listLUTs(r, includeDeleted) ==
  IF includeDeleted
    THEN DOMAIN r
    ELSE {l \in DOMAIN r : r[l].deletedAt = Null}

\* validateLUT(fileBuffer).valid of the contents uploaded
Valid(b) == b # "bad_bytes"

\* createHash('sha256').update(fileBuffer).digest('hex')
Hash(b) == b

\* uuidv4(): an id nothing has had
FreshLutId ==
  CHOOSE l \in LutIds :
    /\ l \notin DOMAIN luts \cup DOMAIN lutFiles \cup deleting
    /\ \A c \in Callers : calls[c].lutId # l

\* createLUT without its duplicate check
SameHash_none(r, h) == {}

\* the entries createLUT's duplicate check can find
SameHash(r, h) == {l \in DOMAIN r : r[l].hash = h}

\* createLUT(fileBuffer, request) up to its first suspension on I/O:
\* validateLUT, parseCubeLUT, the id and the hash, the duplicate check, and
\* the call of writeFile
CreateLUT(c, b, n) ==
  /\ ~MicrotaskPending
  /\ calls[c].pc = "idle"
  /\ LET call == [NoCall EXCEPT !.buffer = b, !.name = n,
                     !.after = {d \in Callers : calls[d].pc = "returned"}]
     IN IF ~Valid(b)
          THEN calls' = [calls EXCEPT ![c] = [call EXCEPT !.pc = "thrown"]]
          ELSE IF SameHash(luts, Hash(b)) # {}
            THEN \E l \in SameHash(luts, Hash(b)) :
                   calls' = [calls EXCEPT ![c] =
                               [call EXCEPT !.pc = "returned", !.ret = l]]
            ELSE calls' = [calls EXCEPT ![c] =
                             [call EXCEPT !.pc = "writeFile",
                                          !.lutId = FreshLutId]]
  /\ UNCHANGED <<luts, lutFiles, deleting>>
  /\ UNCHANGED <<jobVars, arg, ret>>

\* writeFile(storagePath, fileBuffer) puts the file into LUT_STORAGE_DIR
CreateLUTWriteFile(c) ==
  /\ ~MicrotaskPending
  /\ calls[c].pc = "writeFile"
  /\ lutFiles' = With(lutFiles, calls[c].lutId, calls[c].buffer)
  /\ calls' = [calls EXCEPT ![c].pc = "written"]
  /\ UNCHANGED <<luts, deleting>>
  /\ UNCHANGED <<jobVars, arg, ret>>

\* createLUT after `await writeFile`: the descriptor is built and
\* this.luts.set(lutId, validated); then saveLUTRegistry is awaited
CreateLUTSet(c) ==
  /\ ~MicrotaskPending
  /\ calls[c].pc = "written"
  /\ luts' = With(luts, calls[c].lutId,
                  Descriptor(calls[c].lutId, calls[c].name,
                             Hash(calls[c].buffer)))
  /\ calls' = [calls EXCEPT ![c].pc = "save"]
  /\ UNCHANGED <<lutFiles, deleting>>
  /\ UNCHANGED <<jobVars, arg, ret>>

\* createLUT after `await this.saveLUTRegistry()`: return validated
CreateLUTReturn(c) ==
  /\ ~MicrotaskPending
  /\ calls[c].pc = "save"
  /\ calls' = [calls EXCEPT ![c].pc = "returned", ![c].ret = calls[c].lutId]
  /\ UNCHANGED <<luts, lutFiles, deleting>>
  /\ UNCHANGED <<jobVars, arg, ret>>

\* a soft delete that drops the entry from the registry and keeps the file
DeleteLUTSoft_remove(l) ==
  /\ ~MicrotaskPending
  /\ l \in DOMAIN luts
  /\ luts' = Without(luts, l)
  /\ UNCHANGED <<lutFiles, calls, deleting>>
  /\ UNCHANGED <<jobVars, arg, ret>>

\* deleteLUT(lutId), soft: deletedAt and updatedAt are set on the descriptor
DeleteLUTSoft(l) ==
  /\ ~MicrotaskPending
  /\ l \in DOMAIN luts
  /\ luts' = [luts EXCEPT ![l].deletedAt = now]
  /\ UNCHANGED <<lutFiles, calls, deleting>>
  /\ UNCHANGED <<jobVars, arg, ret>>

\* deleteLUT(lutId, true) up to its suspension: if the file exists unlink
\* removes it and the call waits for that; if not, the entry is deleted
DeleteLUTHard(l) ==
  /\ ~MicrotaskPending
  /\ l \in DOMAIN luts
  /\ IF l \in DOMAIN lutFiles
       THEN /\ lutFiles' = Without(lutFiles, l)
            /\ deleting' = deleting \cup {l}
            /\ UNCHANGED luts
       ELSE /\ luts' = Without(luts, l)
            /\ UNCHANGED <<lutFiles, deleting>>
  /\ UNCHANGED calls
  /\ UNCHANGED <<jobVars, arg, ret>>

\* deleteLUT(lutId, true) after `await unlink`: this.luts.delete(lutId)
DeleteLUTHardDone(l) ==
  /\ ~MicrotaskPending
  /\ l \in deleting
  /\ luts' = Without(luts, l)
  /\ deleting' = deleting \ {l}
  /\ UNCHANGED <<lutFiles, calls>>
  /\ UNCHANGED <<jobVars, arg, ret>>

----------------------------------------------------------------------------
\* LUTService.validateLUT
\*
\* A .cube file is taken as the lines that come before its data rows and
\* the number of its data rows, which are the lines that start with none of
\* '#', TITLE, LUT_ and DOMAIN_.  A line is its first word and its second
\* (line.split(/\s+/)[1]), a sequence of characters, empty when there is no
\* second word.

MaxHeader == 2

Seqs(S, n) == UNION {[1..k -> S] : k \in 0..n}

Tokens ==
  { <<>>, <<"1">>, <<"2">>, <<"3">>, <<"2", "5", "6">>, <<"2", "5", "7">>,
    <<"x">>, <<"2", "x">>, <<"-", "2">> }

HeaderLines ==
  [word : {"LUT_3D_SIZE", "LUT_1D_SIZE"}, tok : Tokens]
    \cup [word : {"TITLE", "DOMAIN_MIN", "#"}, tok : {<<>>}]

RowCounts == {0, 1, 2, 3, 8, 9, 27, 256, 257, 16777216}

CubeFiles == [header : Seqs(HeaderLines, MaxHeader), rows : RowCounts]

Digits == {"0", "1", "2", "3", "4", "5", "6", "7", "8", "9"}

DigitValue(ch) ==
  CASE ch = "0" -> 0 [] ch = "1" -> 1 [] ch = "2" -> 2 [] ch = "3" -> 3
    [] ch = "4" -> 4 [] ch = "5" -> 5 [] ch = "6" -> 6 [] ch = "7" -> 7
    [] ch = "8" -> 8 [] ch = "9" -> 9

\* the number the leading digits of `chars` spell after `acc`; `seen` says
\* whether a digit has been read
RECURSIVE ParseDigits(_, _, _)
ParseDigits(chars, acc, seen) ==
  IF chars # <<>> /\ Head(chars) \in Digits
    THEN ParseDigits(Tail(chars), 10 * acc + DigitValue(Head(chars)), TRUE)
    ELSE [nan |-> ~seen, val |-> acc]

\* parseInt(tok, 10): an optional sign and the leading digits; NaN when there
\* is no digit, as for undefined
parseInt(tok) ==
  IF tok # <<>> /\ Head(tok) = "-"
    THEN LET n == ParseDigits(Tail(tok), 0, FALSE)
         IN [nan |-> n.nan, val |-> 0 - n.val]
    ELSE ParseDigits(tok, 0, FALSE)

\* validateLUT, the loop over the lines: hasSize, type and size after the
\* lines of h, each size directive overwriting what the one before set
RECURSIVE Scan(_, _)
Scan(h, st) ==
  IF h = <<>> THEN st
  ELSE LET line == Head(h)
       IN Scan(Tail(h),
               IF line.word = "LUT_3D_SIZE"
                 THEN [hasSize |-> TRUE, type |-> "3D",
                       size |-> parseInt(line.tok)]
               ELSE IF line.word = "LUT_1D_SIZE"
                 THEN [hasSize |-> TRUE, type |-> "1D",
                       size |-> parseInt(line.tok)]
               ELSE st)

\* the lines left by filter(line => line.trim() && !line.startsWith('#'))
NoComments(h) == SelectSeq(h, LAMBDA line : line.word # "#")

\* a range check that lets the size 1 through
SizeOutOfRange_from1(size) == ~size.nan /\ (size.val < 1 \/ size.val > 256)

\* size < 2 || size > 256, false of NaN
SizeOutOfRange(size) == ~size.nan /\ (size.val < 2 \/ size.val > 256)

\* dataLines.length !== expectedDataPoints, true of NaN
CountMismatch(type, size, rows) ==
  \/ size.nan
  \/ rows # (IF type = "3D" THEN size.val * size.val * size.val
                             ELSE size.val)

\* validateLUT(fileBuffer): valid, errors and details
validateLUT(file) ==
  LET st == Scan(NoComments(file.header),
                 [hasSize |-> FALSE, type |-> "3D",
                  size |-> [nan |-> FALSE, val |-> 0]])
      errors ==
        (IF ~st.hasSize THEN {"Missing LUT size declaration"} ELSE {})
        \cup (IF SizeOutOfRange(st.size) THEN {"Invalid LUT size"} ELSE {})
        \cup (IF CountMismatch(st.type, st.size, file.rows)
                THEN {"Data point count mismatch"} ELSE {})
  IN [done |-> TRUE, valid |-> errors = {}, errors |-> errors,
      type |-> st.type, size |-> st.size]

\* a call of validateLUT on the file `arg`
ValidateLUT ==
  /\ ~ret.done
  /\ ret' = validateLUT(arg)
  /\ UNCHANGED <<jobVars, luts, lutFiles, calls, deleting, arg>>

InitValidate ==
  /\ JobsInit
  /\ RegistryInit
  /\ arg \in CubeFiles
  /\ ret = Pending

SpecValidate == InitValidate /\ [][ValidateLUT]_vars

----------------------------------------------------------------------------
\* verifySignature (middleware of the webhook routes)
\*
\* A request is its timestamp header (characters; empty when the header is
\* missing), its signature header (whether it is present, and the algorithm
\* before '=' and the digest after it), its raw body (None when there is
\* none) and the second of the server's clock at which it arrives.  A digest
\* is taken as the key and the payload it was computed from.

MAX_AGE_SECONDS == 300

None == "none"
Secret == "FRAMEIO_WEBHOOK_SECRET"
Keys == {Secret, "other_secret"}
Bodies == {"body_1", "body_2"}
Algorithms == {"v0", "sha256", "sha1"}

\* Math.floor(Date.now() / 1000) when the request arrives
Nows == {1000, 1001}

\* timestamp headers: 699 .. 1301 around the clock, one with trailing
\* characters, one that is no number
TimestampHeaders ==
  { <<>>, <<"x">>, <<"7", "0", "0", "x">>,
    <<"6", "9", "9">>, <<"7", "0", "0">>, <<"7", "0", "1">>,
    <<"1", "0", "0", "0">>,
    <<"1", "2", "9", "9">>, <<"1", "3", "0", "0">>, <<"1", "3", "0", "1">>,
    <<"1", "3", "0", "2">> }

\* the timestamps a sender can have signed
SignedTimestamps == {699, 700, 701, 1000, 1299, 1300, 1301, 1302}

\* createHmac('sha256', key).update(payload).digest('hex')
Hmac(key, format, timestamp, body) ==
  [key |-> key, format |-> format, timestamp |-> timestamp, body |-> body]

Digests ==
  {Hmac(k, f, t, b) : k \in Keys, f \in {"v0", "std"},
                      t \in SignedTimestamps, b \in Bodies}

SignatureHeaders ==
  {[present |-> FALSE]}
    \cup [present : {TRUE}, algorithm : Algorithms, digest : Digests]

Requests ==
  [timestampHeader : TimestampHeaders, signatureHeader : SignatureHeaders,
   rawBody : {None} \cup Bodies, now : Nows]

Abs(x) == IF x < 0 THEN 0 - x ELSE x

\* an age check that looks at the past only
TooOld_pastOnly(now_, timestamp) == now_ - timestamp > MAX_AGE_SECONDS

\* Math.abs(now - timestamp) > MAX_AGE_SECONDS
TooOld(now_, timestamp) == Abs(now_ - timestamp) > MAX_AGE_SECONDS

\* a digest expected over `v0:${timestamp}:${body}` whatever the algorithm
ExpectedSignature_v0Only(algorithm, timestamp, body) ==
  Hmac(Secret, "v0", timestamp, body)

\* the payload the digest is expected over: `v0:${timestamp}:${body}` for the
\* algorithm v0, `${timestamp}.${body}` otherwise
ExpectedSignature(algorithm, timestamp, body) ==
  Hmac(Secret, IF algorithm = "v0" THEN "v0" ELSE "std", timestamp, body)

\* res.status(status).json({ error }); return
Respond(status, error) ==
  [done |-> TRUE, status |-> status, error |-> error,
   written |-> 1, nextCalls |-> 0]

\* next(), nothing written
CallNext ==
  [done |-> TRUE, status |-> "next", error |-> None,
   written |-> 0, nextCalls |-> 1]

DigitChar(d) ==
  CASE d = 0 -> "0" [] d = 1 -> "1" [] d = 2 -> "2" [] d = 3 -> "3"
    [] d = 4 -> "4" [] d = 5 -> "5" [] d = 6 -> "6" [] d = 7 -> "7"
    [] d = 8 -> "8" [] d = 9 -> "9"

\* ts.toString() of a timestamp that is not negative
RECURSIVE toString(_)
toString(n) ==
  IF n < 10 THEN <<DigitChar(n)>>
            ELSE Append(toString(n \div 10), DigitChar(n % 10))

\* generateSignature(payload, timestamp): the headers it returns, the
\* digest being that of `${ts}.${payload}`
generateSignature(payload, ts) ==
  [signatureHeader |->
     [present |-> TRUE, algorithm |-> "sha256",
      digest |-> Hmac(Secret, "std", ts, payload)],
   timestampHeader |-> toString(ts)]

\* verifySignature with the check of the algorithm before that of the body
verifySignature_algorithmFirst(req) ==
  IF ~req.signatureHeader.present \/ req.timestampHeader = <<>>
    THEN Respond("401", "Missing signature or timestamp header")
  ELSE LET timestamp == parseInt(req.timestampHeader)
           algorithm == req.signatureHeader.algorithm
       IN IF timestamp.nan
            THEN Respond("401", "Invalid timestamp header")
          ELSE IF TooOld(req.now, timestamp.val)
            THEN Respond("401", "Request timestamp too old")
          ELSE IF algorithm # "v0" /\ algorithm # "sha256"
            THEN Respond("401", "Invalid signature algorithm")
          ELSE IF req.rawBody = None
            THEN Respond("500", "Unable to verify signature")
          ELSE IF req.signatureHeader.digest
                    # ExpectedSignature(algorithm, timestamp.val, req.rawBody)
            THEN Respond("401", "Invalid signature")
          ELSE CallNext

\* verifySignature(req, res, next): the status it responds with, or "next"
verifySignature(req) ==
  IF ~req.signatureHeader.present \/ req.timestampHeader = <<>>
    THEN Respond("401", "Missing signature or timestamp header")
  ELSE LET timestamp == parseInt(req.timestampHeader)
           algorithm == req.signatureHeader.algorithm
       IN IF timestamp.nan
            THEN Respond("401", "Invalid timestamp header")
          ELSE IF TooOld(req.now, timestamp.val)
            THEN Respond("401", "Request timestamp too old")
          ELSE IF req.rawBody = None
            THEN Respond("500", "Unable to verify signature")
          ELSE IF algorithm # "v0" /\ algorithm # "sha256"
            THEN Respond("401", "Invalid signature algorithm")
          ELSE IF req.signatureHeader.digest
                    # ExpectedSignature(algorithm, timestamp.val, req.rawBody)
            THEN Respond("401", "Invalid signature")
          ELSE CallNext

\* The headers of a request by name: the signature under
\* x-frameio-signature and x-archon-signature, the timestamp under
\* x-frameio-request-timestamp and x-archon-timestamp.
NamedSignatures ==
  {[present |-> FALSE]}
    \cup [present : {TRUE}, algorithm : Algorithms,
          digest : {Hmac(Secret, "v0", 1000, "body_1"),
                    Hmac(Secret, "std", 1000, "body_1"),
                    Hmac("other_secret", "v0", 1000, "body_1")}]

NamedTimestamps == {<<>>, <<"6", "9", "9">>, <<"1", "0", "0", "0">>}

NamedRequests ==
  [frameioSignature : NamedSignatures, archonSignature : NamedSignatures,
   frameioTimestamp : NamedTimestamps, archonTimestamp : NamedTimestamps,
   rawBody : {None, "body_1"}, now : {1000}]

\* signatureHeader = frameioSignature || x-archon-signature and
\* timestampHeader = frameioTimestamp || x-archon-timestamp
Headers(named) ==
  [signatureHeader |-> IF named.frameioSignature.present
                         THEN named.frameioSignature
                         ELSE named.archonSignature,
   timestampHeader |-> IF named.frameioTimestamp # <<>>
                         THEN named.frameioTimestamp
                         ELSE named.archonTimestamp,
   rawBody |-> named.rawBody,
   now |-> named.now]

\* a request with named headers goes through the middleware
VerifyNamed ==
  /\ ~ret.done
  /\ ret' = verifySignature(Headers(arg))
  /\ UNCHANGED <<jobVars, luts, lutFiles, calls, deleting, arg>>

InitNamed ==
  /\ JobsInit
  /\ RegistryInit
  /\ arg \in NamedRequests
  /\ ret = Pending

SpecNamed == InitNamed /\ [][VerifyNamed]_vars

\* The body of a request as sent: its content type and its bytes.  The JSON
\* texts "json_compact" and "json_spaced" are the same object written without
\* and with white space; "form" is a urlencoded body.
WireBodies ==
  [contentType : {"application/json"},
   bytes : {"", "json_compact", "json_spaced"}]
    \cup [contentType : {"application/x-www-form-urlencoded"},
          bytes : {"", "form"}]

\* JSON.parse / the urlencoded parser: the object a body stands for
Parse(bytes) ==
  CASE bytes = "json_compact" -> "object_a"
    [] bytes = "json_spaced" -> "object_a"
    [] bytes = "form" -> "object_form"

\* JSON.stringify(object)
Stringify(object) ==
  CASE object = "object_a" -> "json_compact"
    [] object = "object_form" -> "json_of_form"
    [] object = "object_empty" -> "json_of_empty"

\* app.use(express.json({ verify: captureRawBody })) and
\* app.use(express.urlencoded(...)): req.rawBody and req.body when the
\* request reaches the routes.  captureRawBody is called by the JSON parser
\* alone and stores a buffer that is not empty; `unparsed` is what the
\* parsers leave in req.body when they read nothing ({} or undefined,
\* depending on the version of the framework).
bodyParsers(wire, unparsed) ==
  IF wire.bytes = ""
    THEN [rawBody |-> None, body |-> unparsed]
  ELSE IF wire.contentType = "application/json"
    THEN [rawBody |-> wire.bytes, body |-> Parse(wire.bytes)]
    ELSE [rawBody |-> None, body |-> Parse(wire.bytes)]

\* verifySignature: rawBody = req.rawBody || req.body and the bodyString
\* made of it: the buffer's text, or JSON.stringify of the parsed body;
\* None when there is neither
bodyString(parsed) ==
  IF parsed.rawBody # None THEN parsed.rawBody
  ELSE IF parsed.body # None THEN Stringify(parsed.body)
  ELSE None

WireStrings ==
  {"", "json_compact", "json_spaced", "form", "json_of_form",
   "json_of_empty"}

WireRequests ==
  [timestampHeader : {<<"6", "9", "9">>, <<"1", "0", "0", "0">>},
   signatureHeader :
     {[present |-> FALSE]}
       \cup [present : {TRUE}, algorithm : {"v0"},
             digest : {Hmac(Secret, "v0", 1000, b) : b \in WireStrings}],
   wire : WireBodies,
   unparsed : {None, "object_empty"},
   now : {1000}]

\* the request as verifySignature sees it behind the body parsers
Parsed(w) ==
  [timestampHeader |-> w.timestampHeader,
   signatureHeader |-> w.signatureHeader,
   rawBody |-> bodyString(bodyParsers(w.wire, w.unparsed)),
   now |-> w.now]

\* a request goes through the body parsers and the middleware
VerifyWire ==
  /\ ~ret.done
  /\ ret' = verifySignature(Parsed(arg))
  /\ UNCHANGED <<jobVars, luts, lutFiles, calls, deleting, arg>>

InitWire ==
  /\ JobsInit
  /\ RegistryInit
  /\ arg \in WireRequests
  /\ ret = Pending

SpecWire == InitWire /\ [][VerifyWire]_vars

\* a request goes through the middleware
VerifySignature ==
  /\ ~ret.done
  /\ ret' = verifySignature(arg)
  /\ UNCHANGED <<jobVars, luts, lutFiles, calls, deleting, arg>>

InitVerify ==
  /\ JobsInit
  /\ RegistryInit
  /\ arg \in Requests
  /\ ret = Pending

SpecVerify == InitVerify /\ [][VerifySignature]_vars

----------------------------------------------------------------------------
\* POST /webhooks/frameio/custom-action: verifySignature, then the handler

\* the requests sent to the route: one body, headers missing, malformed,
\* stale and fresh, digests right and wrong
WebhookRequests ==
  [timestampHeader :
     {<<>>, <<"x">>, <<"6", "9", "9">>, <<"1", "0", "0", "0">>},
   signatureHeader :
     {[present |-> FALSE]}
       \cup [present : {TRUE}, algorithm : {"v0"},
             digest : {Hmac(k, "v0", 1000, "body_1") : k \in Keys}],
   rawBody : {None, "body_1"},
   now : {1000}]

\* the handler has been entered and waits for its dynamic import
Handling ==
  [done |-> FALSE, status |-> "next", error |-> None, written |-> 0,
   nextCalls |-> 1]

\* the form the handler answers with: one option per LUT listed
FormResponse(listed) ==
  [done |-> TRUE, status |-> "200", error |-> None, written |-> 1,
   nextCalls |-> 1, title |-> "Select a LUT",
   options |-> {[name |-> luts[l].name, value |-> l] : l \in listed}]

\* a route whose middleware goes on to the handler after it has responded
WebhookCustomAction_noReturn(req, hasLutId, j, a) ==
  /\ ~MicrotaskPending
  /\ arg' = req
  /\ IF hasLutId
       THEN ret' = verifySignature(req) /\ StartJob(j, a)
       ELSE ret' = Handling /\ UNCHANGED <<jobVars>>
  /\ UNCHANGED <<luts, lutFiles, calls, deleting>>

\* router.post('/frameio/custom-action', verifySignature, handler): the
\* handler runs only when verifySignature called next(); with a lutId in the
\* payload's data it calls processLUTJob, without one it awaits the import
\* of the LUT service
WebhookCustomAction(req, hasLutId, j, a) ==
  /\ ~MicrotaskPending
  /\ arg' = req
  /\ IF verifySignature(req).status # "next"
       THEN ret' = verifySignature(req) /\ UNCHANGED <<jobVars>>
       ELSE IF hasLutId
         THEN ret' = verifySignature(req) /\ StartJob(j, a)
         ELSE ret' = Handling /\ UNCHANGED <<jobVars>>
  /\ UNCHANGED <<luts, lutFiles, calls, deleting>>

\* a form that offers every entry of the registry
WebhookForm_all ==
  /\ ~MicrotaskPending
  /\ ret = Handling
  /\ ret' = FormResponse(listLUTs(luts, TRUE))
  /\ UNCHANGED <<jobVars, luts, lutFiles, calls, deleting, arg>>

\* the handler after `await import(...)`: lutService.listLUTs(), the options
\* mapped from it, res.json(formResponse)
WebhookForm ==
  /\ ~MicrotaskPending
  /\ ret = Handling
  /\ ret' = FormResponse(listLUTs(luts, FALSE))
  /\ UNCHANGED <<jobVars, luts, lutFiles, calls, deleting, arg>>

----------------------------------------------------------------------------
\* FrameIOService.uploadMedia
\*
\* A call is the plan (the size of each entry of uploadUrls), the size of
\* the file and what the destination answers: the chunk whose PUT fails, if
\* any, and how.  `ret` holds the locals of the call while it runs.

MaxPlan == 3
MaxFileSize == 6

ChunkSizes == {1, 2, 3}

Uploads ==
  [plan : Seqs(ChunkSizes, MaxPlan), fileSize : 0..MaxFileSize,
   failAt : 0..MaxPlan, failure : {"status", "network"}]

Min(a, b) == IF a < b THEN a ELSE b

\* the locals before statSync
NotStarted ==
  [done |-> FALSE, phase |-> "start", i |-> 0, currentOffset |-> 0,
   totalUploaded |-> 0, transfers |-> <<>>, progress |-> <<>>,
   inFlight |-> 0, fd |-> "none", outcome |-> "pending", error |-> None]

\* the error a failing PUT of chunk i makes uploadMedia throw
ChunkError(up) ==
  IF up.failure = "status"
    THEN "Upload failed with status 500: errorText"
    ELSE "fetch failed"

\* finally { closeSync(fd) } and the end of the call
Settle(st, outcome, error) ==
  [st EXCEPT !.done = TRUE, !.phase = "end", !.fd = "closed",
             !.outcome = outcome, !.error = error]

\* a loop that reads every chunk from the start of the file
LoopHead_noOffset(up, st) ==
  IF st.i > Len(up.plan)
    THEN Settle(st, "resolved", None)
  ELSE LET bytesToRead == Min(up.plan[st.i], up.fileSize - st.currentOffset)
       IN IF bytesToRead <= 0
            THEN Settle(st, "resolved", None)
            ELSE [st EXCEPT !.phase = "fetch",
                            !.inFlight = @ + 1,
                            !.transfers =
                              Append(@, [chunk |-> st.i,
                                         offset |-> 0,
                                         length |-> bytesToRead])]

\* the head of the loop at chunk st.i: past the plan, or with nothing of the
\* file left (bytesToRead <= 0, break), the call ends; otherwise the chunk is
\* read at currentOffset and its PUT is issued
LoopHead(up, st) ==
  IF st.i > Len(up.plan)
    THEN Settle(st, "resolved", None)
  ELSE LET bytesToRead == Min(up.plan[st.i], up.fileSize - st.currentOffset)
       IN IF bytesToRead <= 0
            THEN Settle(st, "resolved", None)
            ELSE [st EXCEPT !.phase = "fetch",
                            !.inFlight = @ + 1,
                            !.transfers =
                              Append(@, [chunk |-> st.i,
                                         offset |-> st.currentOffset,
                                         length |-> bytesToRead])]

\* a loop that goes on to the next chunk after a PUT that failed
AfterResponse_goOn(up, st) ==
  LET sent == st.transfers[Len(st.transfers)].length
  IN LoopHead(up, [st EXCEPT !.inFlight = @ - 1,
                             !.currentOffset = @ + sent,
                             !.totalUploaded = @ + sent,
                             !.i = @ + 1])

\* the PUT of chunk st.i is answered: a failure is thrown through the
\* finally block; a success is reported to onProgress as
\* (totalUploaded + bytesToRead) / fileSize * 100, kept here as the
\* fraction, the offsets advance and the loop goes on
AfterResponse(up, st) ==
  LET sent == st.transfers[Len(st.transfers)].length
  IN IF up.failAt = st.i
       THEN Settle([st EXCEPT !.inFlight = @ - 1], "rejected", ChunkError(up))
       ELSE LoopHead(up,
              [st EXCEPT !.inFlight = @ - 1,
                         !.progress =
                           Append(@, [num |-> (st.totalUploaded + sent) * 100,
                                      den |-> up.fileSize]),
                         !.currentOffset = @ + sent,
                         !.totalUploaded = @ + sent,
                         !.i = @ + 1])

\* uploadMedia up to its first await: statSync, openSync, the first chunk
UploadMediaStart ==
  /\ ret.phase = "start"
  /\ ret' = LoopHead(arg, [ret EXCEPT !.fd = "open", !.i = 1])
  /\ UNCHANGED <<jobVars, luts, lutFiles, calls, deleting, arg>>

\* uploadMedia after `await fetch(url, ...)`
UploadMediaResponse ==
  /\ ret.phase = "fetch"
  /\ ret' = AfterResponse(arg, ret)
  /\ UNCHANGED <<jobVars, luts, lutFiles, calls, deleting, arg>>

InitUpload ==
  /\ JobsInit
  /\ RegistryInit
  /\ arg \in Uploads
  /\ ret = NotStarted

NextUpload == UploadMediaStart \/ UploadMediaResponse

SpecUpload == InitUpload /\ [][NextUpload]_vars

----------------------------------------------------------------------------
\* Acquisition of the source
\*
\* A source is a body of `body` units behind a URL whose response declares
\* a Content-Length or none (Null).  `path` is the code that fetches it:
\* downloadAsset (local mode), the transcoder reading the URL (remote mode),
\* or downloadMedia (applyLUT with an input that is not file://).

MaxContentLength == 5
MAX_FILE_SIZE_BYTES == 3

Sources ==
  { src \in [path : {"downloadAsset", "remote", "downloadMedia"},
             body : 0..MaxContentLength,
             contentLength : {Null} \cup 0..MaxContentLength] :
      src.contentLength \in {Null, src.body} }

NotFetched ==
  [done |-> FALSE, phase |-> "start", written |-> 0, transcoded |-> 0,
   outcome |-> "pending", error |-> None]

\* parseInt(response.headers['content-length'] || '0', 10)
DeclaredLength(src) ==
  IF src.contentLength = Null THEN 0 ELSE src.contentLength

\* downloadAsset: the response stream is piped to the file as it comes
DownloadAsset ==
  /\ arg.path = "downloadAsset"
  /\ ret.phase = "start"
  /\ ret' = [ret EXCEPT !.phase = "pipeline"]
  /\ UNCHANGED <<jobVars, luts, lutFiles, calls, deleting, arg>>

\* downloadMedia: the declared length is compared with the maximum before
\* the write stream is created
DownloadMedia ==
  /\ arg.path = "downloadMedia"
  /\ ret.phase = "start"
  /\ ret' = IF DeclaredLength(arg) > MAX_FILE_SIZE_BYTES
              THEN [ret EXCEPT !.done = TRUE, !.phase = "end",
                               !.outcome = "rejected",
                               !.error = "File too large"]
              ELSE [ret EXCEPT !.phase = "pipeline"]
  /\ UNCHANGED <<jobVars, luts, lutFiles, calls, deleting, arg>>

\* await pipeline(response.data, writer): one more unit of the body reaches
\* the file, or the body has ended and the download resolves
Pipeline ==
  /\ ret.phase = "pipeline"
  /\ ret' = IF ret.written < arg.body
              THEN [ret EXCEPT !.written = @ + 1]
              ELSE [ret EXCEPT !.done = TRUE, !.phase = "end",
                               !.outcome = "resolved"]
  /\ UNCHANGED <<jobVars, luts, lutFiles, calls, deleting, arg>>

\* processVideoRemotely: spawn(ffmpeg, ['-i', downloadUrl, ...]); the
\* transcoder reads the body from the URL
RemoteInput ==
  /\ arg.path = "remote"
  /\ ret.phase \in {"start", "ffmpeg"}
  /\ ret' = IF ret.transcoded < arg.body
              THEN [ret EXCEPT !.phase = "ffmpeg", !.transcoded = @ + 1]
              ELSE [ret EXCEPT !.done = TRUE, !.phase = "end",
                               !.outcome = "resolved"]
  /\ UNCHANGED <<jobVars, luts, lutFiles, calls, deleting, arg>>

InitAcquire ==
  /\ JobsInit
  /\ RegistryInit
  /\ arg \in Sources
  /\ ret = NotFetched

NextAcquire == DownloadAsset \/ DownloadMedia \/ Pipeline \/ RemoteInput

SpecAcquire == InitAcquire /\ [][NextAcquire]_vars

----------------------------------------------------------------------------
\* Progress of applyLUT
\*
\* A run is the kind of input (file:// or a URL to download), the size the
\* download declares, the duration ffprobe reports and the time tokens, in
\* seconds, of the lines ffmpeg writes.  Percentages are fractions.

MaxTokens == 3
MaxSeconds == 3
MaxDuration == 2
DownloadTotal == 2

Frac(n, d) == [num |-> n, den |-> d]

Greater(a, b) == a.num * b.den > b.num * a.den

\* Math.min(percent, 100)
MinOf100(a) == IF Greater(a, Frac(100, 1)) THEN Frac(100, 1) ELSE a

Runs ==
  [inputUrl : {"file", "http"}, totalDuration : 0..MaxDuration,
   tokens : Seqs(0..MaxSeconds, MaxTokens)]

NotRun ==
  [done |-> FALSE, phase |-> "start", loaded |-> 0, k |-> 0,
   lastProgress |-> Frac(0, 1), delivered |-> <<>>]

\* options.onProgress?.(percent, ...)
Deliver(st, percent) == [st EXCEPT !.delivered = Append(@, percent)]

\* applyLUT with a file:// input: copyFile, then onProgress(30)
ApplyLUTCopy ==
  /\ arg.inputUrl = "file"
  /\ ret.phase = "start"
  /\ ret' = Deliver([ret EXCEPT !.phase = "ffmpeg"], Frac(30, 1))
  /\ UNCHANGED <<jobVars, luts, lutFiles, calls, deleting, arg>>

\* downloadMedia's onDownloadProgress: loaded / total * 100, which applyLUT
\* passes on as percent * 0.3; the download may end after any event
OnDownloadProgress ==
  /\ arg.inputUrl = "http"
  /\ ret.phase \in {"start", "download"}
  /\ \/ \E loaded \in (ret.loaded + 1)..DownloadTotal :
          ret' = Deliver([ret EXCEPT !.phase = "download",
                                     !.loaded = loaded],
                         Frac(loaded * 100 * 3, DownloadTotal * 10))
     \/ ret' = [ret EXCEPT !.phase = "ffmpeg"]
  /\ UNCHANGED <<jobVars, luts, lutFiles, calls, deleting, arg>>

\* the stderr handler reporting every time token
OnStderrData_noGuard(up, st) ==
  LET time == up.tokens[st.k + 1]
      percent == Frac(time * 100, up.totalDuration)
      next == [st EXCEPT !.k = @ + 1]
  IN IF up.totalDuration > 0
       THEN LET capped == MinOf100(percent)
            IN Deliver([next EXCEPT !.lastProgress = percent],
                       Frac(30 * 10 * capped.den + 7 * capped.num,
                            10 * capped.den))
       ELSE next

\* runFFmpeg's stderr handler on a line with a time token: a percent above
\* lastProgress is kept and reported, capped at 100, and applyLUT scales it
\* to 30 + percent * 0.7
OnStderrData(up, st) ==
  LET time == up.tokens[st.k + 1]
      percent == Frac(time * 100, up.totalDuration)
      next == [st EXCEPT !.k = @ + 1]
  IN IF up.totalDuration > 0 /\ Greater(percent, st.lastProgress)
       THEN LET capped == MinOf100(percent)
            IN Deliver([next EXCEPT !.lastProgress = percent],
                       Frac(30 * 10 * capped.den + 7 * capped.num,
                            10 * capped.den))
       ELSE next

RunFFmpegData ==
  /\ ret.phase = "ffmpeg"
  /\ ret.k < Len(arg.tokens)
  /\ ret' = OnStderrData(arg, ret)
  /\ UNCHANGED <<jobVars, luts, lutFiles, calls, deleting, arg>>

\* ffmpeg.on('close')
RunFFmpegClose ==
  /\ ret.phase = "ffmpeg"
  /\ ret.k = Len(arg.tokens)
  /\ ret' = [ret EXCEPT !.done = TRUE, !.phase = "end"]
  /\ UNCHANGED <<jobVars, luts, lutFiles, calls, deleting, arg>>

InitProgress ==
  /\ JobsInit
  /\ RegistryInit
  /\ arg \in Runs
  /\ ret = NotRun

NextProgress ==
  ApplyLUTCopy \/ OnDownloadProgress \/ RunFFmpegData \/ RunFFmpegClose

SpecProgress == InitProgress /\ [][NextProgress]_vars

----------------------------------------------------------------------------
\* buildLUTFilterGraph
\*
\* The graph is kept as the list of its stages, in the order of the string.
\* A strength is a number of tenths, Null when the option is unset.

MaxStrength == 10
FullStrength == 10

ColorSpaces ==
  {"Rec709", "P3D65", "SLog3", "HLG", "PQ", "Linear", "LogC", "Unknown"}

Interpolations == {"nearest", "trilinear", "tetrahedral"}

FilterOptions ==
  [lutPath : {"lutPath"},
   inputColorSpace : ColorSpaces \cup {Undefined},
   outputColorSpace : ColorSpaces \cup {Undefined},
   strength : {Null} \cup 0..MaxStrength,
   interpolation : Interpolations \cup {Undefined}]

Stage(kind, text, opacity) ==
  [kind |-> kind, text |-> text, opacity |-> opacity]

\* the table of getColorSpaceConversionFilter
conversions ==
  [SLog3 |-> [Rec709 |-> "colorspace=all=bt709:iall=bt2020:fast=0",
              P3D65 |-> "colorspace=all=p3-d65:iall=bt2020:fast=0"],
   LogC |-> [Rec709 |-> "colorspace=all=bt709:iall=bt470bg:fast=0",
             P3D65 |-> "colorspace=all=p3-d65:iall=bt470bg:fast=0"],
   P3D65 |-> [Rec709 |-> "colorspace=all=bt709:iall=p3-d65:fast=0",
              SLog3 |-> "colorspace=all=bt2020:iall=p3-d65:fast=0"],
   Rec709 |-> [P3D65 |-> "colorspace=all=p3-d65:iall=bt709:fast=0",
               SLog3 |-> "colorspace=all=bt2020:iall=bt709:fast=0"]]

\* conversions[from]?.[to] || 'colorspace=all=bt709:fast=0'
getColorSpaceConversionFilter(from, to) ==
  IF from \in DOMAIN conversions /\ to \in DOMAIN conversions[from]
    THEN Stage("colorspace", conversions[from][to], Null)
    ELSE Stage("colorspace", "colorspace=all=bt709:fast=0", Null)

\* lut3d='<lutPath>', with :interp=<interpolation> when it is given
lutFilter(options) == Stage("lut3d", options.interpolation, Null)

\* const strength = options.strength || 1.0; split, lut3d, blend
buildBlendedLUTFilter(options) ==
  << Stage("split", "[0:v]split=2[original][lut]", Null),
     lutFilter(options),
     Stage("blend", "blend=all_mode=normal",
           IF options.strength = 0 THEN FullStrength ELSE options.strength) >>

\* a builder that blends at full strength too
buildLUTFilterGraph_blendAtFull(options) ==
  IF options.strength # Null /\ options.strength <= FullStrength
    THEN buildBlendedLUTFilter(options)
    ELSE (IF Truthy(options.inputColorSpace)
               /\ options.inputColorSpace # "Rec709"
            THEN <<getColorSpaceConversionFilter(options.inputColorSpace,
                                                 "Rec709")>>
            ELSE <<>>)
         \o <<lutFilter(options)>>
         \o (IF Truthy(options.outputColorSpace)
                  /\ options.outputColorSpace # "Rec709"
               THEN <<getColorSpaceConversionFilter("Rec709",
                                                    options.outputColorSpace)>>
               ELSE <<>>)

buildLUTFilterGraph(options) ==
  IF options.strength # Null /\ options.strength < FullStrength
    THEN buildBlendedLUTFilter(options)
    ELSE (IF Truthy(options.inputColorSpace)
               /\ options.inputColorSpace # "Rec709"
            THEN <<getColorSpaceConversionFilter(options.inputColorSpace,
                                                 "Rec709")>>
            ELSE <<>>)
         \o <<lutFilter(options)>>
         \o (IF Truthy(options.outputColorSpace)
                  /\ options.outputColorSpace # "Rec709"
               THEN <<getColorSpaceConversionFilter("Rec709",
                                                    options.outputColorSpace)>>
               ELSE <<>>)

BuildLUTFilterGraph ==
  /\ ~ret.done
  /\ ret' = [done |-> TRUE, graph |-> buildLUTFilterGraph(arg)]
  /\ UNCHANGED <<jobVars, luts, lutFiles, calls, deleting, arg>>

InitFilter ==
  /\ JobsInit
  /\ RegistryInit
  /\ arg \in FilterOptions
  /\ ret = Pending

SpecFilter == InitFilter /\ [][BuildLUTFilterGraph]_vars

----------------------------------------------------------------------------
\* Periodic sweeps and the clock

\* a sweep that marks old records failed instead of deleting them
CleanupOldJobs_markFailed ==
  /\ ~MicrotaskPending
  /\ rec' = [j \in JobIds |->
               IF j \in jobs /\ now - rec[j].createdAt > ONE_DAY
                 THEN [rec[j] EXCEPT !.status = "failed", !.error = "expired"]
                 ELSE rec[j]]
  /\ FsUnchanged
  /\ UNCHANGED <<jobs, request, pc, thrown, trigger, readerVars, confVars>>
  /\ UNCHANGED <<otherVars, taskVars>>

\* a purge that also takes the records that are exactly a day old
CleanupOldJobs_atDay ==
  /\ ~MicrotaskPending
  /\ jobs' = {j \in jobs : ~(now - rec[j].createdAt >= ONE_DAY)}
  /\ FsUnchanged
  /\ UNCHANGED <<rec, request, pc, thrown, trigger, readerVars, confVars>>
  /\ UNCHANGED <<otherVars, taskVars>>

\* cleanupOldJobs (setInterval, hourly): every record created more than a day
\* ago is deleted from the table
CleanupOldJobs ==
  /\ ~MicrotaskPending
  /\ jobs' = {j \in jobs : ~(now - rec[j].createdAt > ONE_DAY)}
  /\ FsUnchanged
  /\ UNCHANGED <<rec, request, pc, thrown, trigger, readerVars, confVars>>
  /\ UNCHANGED <<otherVars, taskVars>>

\* deleteTemp(filePath): existsSync, then unlink, which fails on a directory;
\* the failure is logged only
deleteTemp(f, p) == IF f[p] = "file" THEN Unlink(f, p) ELSE f

\* cleanupExpiredFiles: the entries it hands to deleteTemp, those directly
\* inside TEMP_PROCESSING_DIR and TEMP_UPLOAD_DIR whose mtime is more than
\* the sweep age before `now`
Expired(f, m) ==
  {p \in Readdir(f, TEMP_PROCESSING_DIR) \cup Readdir(f, TEMP_UPLOAD_DIR) :
     now - m[p] > SweepAge}

\* what is left of the filesystem after deleteTemp on each path of ps
deleteAll(f, ps) == [q \in Paths |-> IF q \in ps THEN deleteTemp(f, q)[q] ELSE f[q]]

\* StorageService.cleanupExpiredFiles (setInterval, every 15 minutes)
CleanupExpiredFiles ==
  /\ ~MicrotaskPending
  /\ FsBecomes(deleteAll(fs, Expired(fs, mtime)))
  /\ UNCHANGED <<mode, now, jobs, rec, request, pc, thrown, trigger,
                 readerVars>>
  /\ UNCHANGED <<otherVars, taskVars>>

\* time passes
Tick(d) ==
  /\ ~MicrotaskPending
  /\ now + d <= MaxTime
  /\ now' = now + d
  /\ FsUnchanged
  /\ UNCHANGED <<mode, jobs, rec, request, pc, thrown, trigger, readerVars>>
  /\ UNCHANGED <<otherVars, taskVars>>

----------------------------------------------------------------------------

\* time passes while no pipeline is in flight
QuietTick(d) ==
  /\ \A j \in JobIds : pc[j] \in {"none", "done"}
  /\ Tick(d)

\* one step of the trigger handler's continuation or of the background task
\* of job j
JobStep(j) ==
  \/ TriggerRespond(j)
  \/ ProcessLUTJobCatch(j)
  \/ GetLUT(j)
  \/ LocalMkdir(j)
  \/ LocalDownload(j)
  \/ LocalProbe(j)
  \/ ApplyMkdir(j)
  \/ ApplyCopy(j)
  \/ ApplyProbe(j)
  \/ ApplyFFmpeg(j)
  \/ ApplyFFmpegStall(j)
  \/ ApplyUnlink(j)
  \/ ApplyCatch(j)
  \/ LocalStatOut(j)
  \/ UploadCreateFile(j)
  \/ UploadMedia(j)
  \/ UploadVersionStack(j)
  \/ UploadComment(j)
  \/ LocalFinally(j)
  \/ RemoteAccess(j)
  \/ RemoteAsset(j)
  \/ RemoteFFmpeg(j)
  \/ RemoteFFmpegStall(j)
  \/ RemoteFFmpegTimeout(j)
  \/ RemoteStat(j)
  \/ RemoteCreateFile(j)
  \/ RemoteUploadMedia(j)
  \/ RemoteVersionStack(j)
  \/ RemoteComment(j)
  \/ RemoteUnlink(j)

\* Two jobs, a status reader and both periodic sweeps; every pipeline
\* completes within one unit of the clock.
Next ==
  \/ \E j \in JobIds, a \in AssetIds : ProcessLUTJob(j, a)
  \/ \E j \in JobIds : JobStep(j)
  \/ \E j \in JobIds : GetJobStatus(j)
  \/ CleanupOldJobs
  \/ CleanupExpiredFiles
  \/ \E d \in QuietSteps : QuietTick(d)

Spec == Init /\ [][Next]_vars

\* One job whose pipeline may take arbitrarily long: time passes, and the
\* sweeps run, between any two of its steps.
NextTimed ==
  \/ \E j \in TimedJobIds, a \in AssetIds : ProcessLUTJob(j, a)
  \/ \E j \in TimedJobIds : JobStep(j)
  \/ \E j \in TimedJobIds : GetJobStatus(j)
  \/ CleanupOldJobs
  \/ CleanupExpiredFiles
  \/ \E d \in TickSteps : Tick(d)

SpecTimed == Init /\ [][NextTimed]_vars

\* Once a stage has thrown, what is left of the task are filesystem calls
\* that settle (unlink in applyLUT's catch, fs.rm in the finally block) and
\* the promise reaction of processLUTJob's .catch; the event loop runs each.
TaskFairness ==
  \A j \in TimedJobIds :
    /\ WF_vars(ApplyCatch(j))
    /\ WF_vars(LocalFinally(j))
    /\ WF_vars(ProcessLUTJobCatch(j))

SpecTimedFair == SpecTimed /\ TaskFairness

\* time passes: by half a day or so, and by the hour once a day has gone
PurgeTick ==
  \/ \E d \in TickSteps : Tick(d)
  \/ now >= ONE_DAY /\ Tick(1)

\* One job, started early enough for the bounded clock to pass its
\* retention window, with the clock advancing and the hourly timer of
\* cleanupOldJobs.
NextPurge ==
  \/ \E j \in TimedJobIds, a \in AssetIds :
       now + ONE_DAY < MaxTime /\ ProcessLUTJob(j, a)
  \/ \E j \in TimedJobIds : JobStep(j)
  \/ \E j \in TimedJobIds : GetJobStatus(j)
  \/ CleanupOldJobs
  \/ PurgeTick

SpecPurge == Init /\ [][NextPurge]_vars

\* The clock advances, the timer fires, and the promise reactions of the
\* trigger handler and of processLUTJob's .catch run.
PurgeFairness ==
  /\ WF_vars(PurgeTick)
  /\ WF_vars(CleanupOldJobs)
  /\ \A j \in TimedJobIds :
       WF_vars(TriggerRespond(j)) /\ WF_vars(ProcessLUTJobCatch(j))

SpecPurgeFair == SpecPurge /\ PurgeFairness

\* deleteLUT in either form
DeleteStep(l) ==
  \/ DeleteLUTSoft(l)
  \/ DeleteLUTHard(l)
  \/ DeleteLUTHardDone(l)

\* One job, and deletions of LUTs between any two of its steps.
NextDelete ==
  \/ \E j \in TimedJobIds, a \in AssetIds : ProcessLUTJob(j, a)
  \/ \E j \in TimedJobIds : JobStep(j)
  \/ \E l \in LutIds : DeleteStep(l)

SpecDelete == Init /\ [][NextDelete]_vars

\* one step of a call of createLUT
CreateStep(c) ==
  \/ \E b \in Contents, n \in Names : CreateLUT(c, b, n)
  \/ CreateLUTWriteFile(c)
  \/ CreateLUTSet(c)
  \/ CreateLUTReturn(c)

\* The LUT service alone: two calls of createLUT, concurrent or one after
\* the other, and deletions.
NextLUT ==
  \/ \E c \in Callers : CreateStep(c)
  \/ \E l \in LutIds : DeleteStep(l)

SpecLUT == Init /\ [][NextLUT]_vars

\* Requests to the route, and the tasks of the jobs they start.
NextWebhook ==
  \/ \E req \in WebhookRequests, hasLutId \in BOOLEAN,
        j \in TimedJobIds, a \in AssetIds :
          WebhookCustomAction(req, hasLutId, j, a)
  \/ WebhookForm
  \/ \E j \in TimedJobIds : JobStep(j)

SpecWebhook == Init /\ [][NextWebhook]_vars

\* the verified requests among those sent to the route, and one refused
FormRequests ==
  {req \in WebhookRequests :
     /\ req.timestampHeader = <<"1", "0", "0", "0">>
     /\ req.signatureHeader.present
     /\ req.rawBody = "body_1"}

\* Requests to the route while LUTs are created and deleted; the tasks of
\* the jobs started stay at their first await.
NextForm ==
  \/ \E req \in FormRequests, hasLutId \in BOOLEAN,
        j \in JobIds, a \in AssetIds :
          WebhookCustomAction(req, hasLutId, j, a)
  \/ WebhookForm
  \/ \E j \in JobIds : TriggerRespond(j)
  \/ CreateStep("c1")
  \/ \E l \in LutIds : DeleteStep(l)

SpecForm == Init /\ [][NextForm]_vars

----------------------------------------------------------------------------
\* Status transitions

\* the status of job j's record goes from `from` to `to`.  No state shows the
\* status "pending": processLUTJob stores the record as pending and the head
\* of processJobAsync sets it to processing in the same uninterrupted step,
\* so a step from no record to "processing" is the creation of the record
\* followed by pending -> processing.
StatusChange(j, from, to) == rec[j].status = from /\ rec'[j].status = to

AllowedChange(j) ==
  \/ StatusChange(j, "none", "processing")
  \/ StatusChange(j, "processing", "uploading")
  \/ StatusChange(j, "uploading", "completed")
  \/ \E X \in {"pending", "processing", "uploading"} :
       StatusChange(j, X, "failed")

\* C1: in both modes every change of a job's status is pending->processing,
\* processing->uploading, uploading->completed or X->failed with X a
\* non-terminal status; a job reaches completed only from uploading.
C1_OnlyAllowedTransitions ==
  [][\A j \in JobIds :
       rec'[j].status # rec[j].status => AllowedChange(j)]_vars

----------------------------------------------------------------------------
\* Failures

\* the .catch of processLUTJob has just handled the rejection of job j's task
FailureHandled(j) == pc[j] = "rejected" /\ pc'[j] = "done"

FailureOnRecord(j) ==
  rec'[j].status = "failed" /\ rec'[j].error = thrown[j]

\* C2 as stated: when a stage of a job has thrown, the job's record gets
\* status failed with the thrown message as error, and the promise of
\* processLUTJob has resolved with the job id.
C2_FailureAlwaysRecorded ==
  [][\A j \in JobIds :
       FailureHandled(j) =>
         j \in jobs' /\ FailureOnRecord(j) /\ trigger'[j] # "none"]_vars

\* C2, amended: when a stage of a job has thrown, the task runs to its end
\* and the promise of processLUTJob has resolved with the job id; the job's
\* record, unless cleanupOldJobs has removed it from the table by then, has
\* status failed with the thrown message as error.
C2_FailureRecordedUnlessPurged ==
  /\ [][\A j \in JobIds :
          FailureHandled(j) =>
            /\ j \in jobs' => FailureOnRecord(j)
            /\ trigger'[j] # "none"]_vars
  /\ \A j \in JobIds : (thrown[j] # Undefined) ~> (pc[j] = "done")

\* a job whose stage threw has ended with the failure on its record
C2_Witness ==
  \E j \in JobIds :
    /\ pc[j] = "done"
    /\ thrown[j] # Undefined
    /\ j \in jobs
    /\ rec[j].status = "failed"
    /\ rec[j].error = thrown[j]

----------------------------------------------------------------------------
\* The handle

\* the directories created for job j alone
OwnDirs(j) == {tempDir(j), applyTempDir(j)}

\* C3: when the job id becomes available to the caller of processLUTJob the
\* record is in the job table and no stage of the job has run (its task is
\* suspended before LUT resolution, nothing has been thrown, no directory of
\* the job exists); and whenever a job's task is under way its id has
\* already been handed back, so the caller never waits for a stage.
C3_HandleBeforeStages ==
  \A j \in JobIds :
    /\ trigger[j] = "resolved" =>
          /\ j \in jobs
          /\ pc[j] = "getLUT"
          /\ thrown[j] = Undefined
          /\ \A p \in OwnDirs(j) : ~Exists(fs, p)
    /\ pc[j] # "none" => trigger[j] # "none"

\* the job id has just been handed back
C3_Witness ==
  \E j \in JobIds :
    trigger[j] = "resolved" /\ j \in jobs /\ rec[j].status = "processing"

----------------------------------------------------------------------------
\* Terminal states

Terminal(status) == status \in {"completed", "failed"}

\* where a task can be once its record is terminal: at the finally block's
\* fs.rm, rejected with its .catch still to run, or at its end
AfterStages == {"l_finally", "rejected", "done"}

\* C4: once a job's status is completed or failed it never changes, and the
\* job's task is past every stage and never goes back to one; a task that has
\* ended stays ended.
C4_TerminalAbsorbing ==
  [][\A j \in JobIds :
       /\ Terminal(rec[j].status) =>
             /\ rec'[j].status = rec[j].status
             /\ pc[j] \in AfterStages
             /\ pc'[j] \in AfterStages
       /\ pc[j] = "done" => pc'[j] = "done"]_vars

\* one job has ended completed and another failed
C4_Witness ==
  \E j, k \in JobIds :
    /\ pc[j] = "done" /\ rec[j].status = "completed"
    /\ pc[k] = "done" /\ rec[k].status = "failed"

----------------------------------------------------------------------------
\* Record consistency

Present(v) == v # Undefined

\* C5: every record in the job table, at every point where a status read can
\* run, has status completed exactly if it carries a result and status
\* failed exactly if it carries an error, and never carries both.
C5_RecordConsistent ==
  \A j \in jobs :
    /\ rec[j].status = "completed" <=> Present(rec[j].result)
    /\ rec[j].status = "failed" <=> Present(rec[j].error)
    /\ ~(Present(rec[j].result) /\ Present(rec[j].error))

\* status reads have returned a completed record while another job's record
\* is failed
C5_Witness ==
  \E j, k \in jobs :
    /\ heldRef = j
    /\ rec[j].status = "completed" /\ Present(rec[j].result)
    /\ rec[k].status = "failed" /\ Present(rec[k].error)

----------------------------------------------------------------------------
\* Status reads

\* what a reader sees through the value getJobStatus returned to it
Seen(r, ref) == <<r[ref].status, r[ref].result, r[ref].error>>

\* C6: a value returned by getJobStatus is a snapshot: as long as the reader
\* holds it, what it shows does not change, whatever the job's task does.
C6_SnapshotUnchanged ==
  [][heldRef # NoRef /\ heldRef' = heldRef =>
       Seen(rec', heldRef) = Seen(rec, heldRef)]_vars

----------------------------------------------------------------------------
\* Writers of a record

\* the step is one of job j's own background task and of nothing else: the
\* task of j moves on, no other task does, and the step is neither a status
\* read, nor the handling of a trigger, nor a sweep, nor the clock
OwnTaskStep(j) ==
  /\ pc'[j] # pc[j]
  /\ \A k \in JobIds \ {j} : pc'[k] = pc[k]
  /\ UNCHANGED <<jobs, request, trigger, heldRef, now>>

\* C7: the status, result and error of a record in the job table change only
\* in steps of that job's own background task.
C7_SingleWriter ==
  [][\A j \in jobs :
       Seen(rec', j) # Seen(rec, j) => OwnTaskStep(j)]_vars

\* one job's task has moved its record on while another job's record, which
\* a reader holds, is in the table and still processing
C7_Witness ==
  \E j, k \in jobs :
    /\ j # k
    /\ rec[j].status = "uploading"
    /\ rec[k].status = "processing"
    /\ heldRef = k

----------------------------------------------------------------------------
\* Paths of a job

\* the paths the task of job j creates or writes: in remote mode the output
\* of ffmpeg; in local mode the working directory with the download and the
\* output of ffmpeg in it, and applyLUT's directory with its input copy
WritePaths(j) ==
  IF mode = "remote"
    THEN {remoteOutputPath(request[j])}
    ELSE {tempDir(j), inputPath(j, request[j]), outputPath(j, request[j]),
          applyTempDir(j), applyInputPath(j)}

\* the task of job j is under way
InFlight(j) == pc[j] \notin {"none", "done"}

\* a step creates or removes a path only as part of a job's task or of the
\* storage sweep, and a task creates only paths of WritePaths
WritesWithinWritePaths ==
  [][\A p \in Paths :
       fs'[p] # fs[p] /\ Exists(fs', p) =>
         \E j \in JobIds : pc'[j] # pc[j] /\ p \in WritePaths(j)]_vars

\* C8: two distinct jobs that run concurrently, also when submitted for the
\* same asset, create and write disjoint sets of paths, in either mode.
C8_DisjointWritePaths ==
  \A j, k \in JobIds :
    j # k /\ InFlight(j) /\ InFlight(k) =>
      WritePaths(j) \cap WritePaths(k) = {}

\* the write paths of concurrent jobs are disjoint in local mode
DisjointInLocalMode ==
  mode = "local" => C8_DisjointWritePaths

----------------------------------------------------------------------------
\* Temporary files

\* the task of job j has ended and its record is terminal
Finished(j) == pc[j] = "done" /\ Terminal(rec[j].status)

\* the paths created for job j that are on disk
Leftovers(j) == {p \in WritePaths(j) : Exists(fs, p)}

\* C9: once a job has reached a terminal state, completed or failed, in
\* either mode, and its task has ended, nothing that was created for the job
\* is left on disk.
C9_NoLeftovers ==
  \A j \in JobIds : Finished(j) => Leftovers(j) = {}

\* C10: whatever a finished job has left on disk is removed by the storage
\* sweep once it is older than the sweep age: everything the job created is
\* at least as old as the last update of its record, so a sweep that runs
\* more than the sweep age after that update removes every leftover.
C10_SweepRemovesLeftovers ==
  \A j \in JobIds :
    Finished(j) /\ now - rec[j].updatedAt > SweepAge =>
      \A p \in Leftovers(j) :
        ~Exists(deleteAll(fs, Expired(fs, mtime)), p)

----------------------------------------------------------------------------
\* Stalled transcoder

\* the transcoder of job j has stalled: it will emit neither close nor error
Stalled(j) == pc[j] \in {"a_stalled", "r_stalled"}

\* C11: in both modes a stalled transcoder does not hold its job for ever:
\* a timeout is armed that rejects the transcode run, so the job's task
\* always has a step to take and goes on to failed.
C11_StallEndsByTimeout ==
  \A j \in JobIds : Stalled(j) => ENABLED JobStep(j)

\* the same in remote mode alone
StallEndsByTimeoutRemote ==
  mode = "remote" => C11_StallEndsByTimeout

----------------------------------------------------------------------------
\* The upload phase

Called(j, e) == \E i \in DOMAIN events[j] : events[j][i] = e

\* every chunk of the output was transferred, and before any other call
MediaTransferred(j) ==
  /\ Len(events[j]) >= Chunks
  /\ \A i \in 1..Chunks : events[j][i] = "chunk ok"

\* C12: when the media upload and the version stack of a job succeeded and
\* postComment threw, the job is not failed and no exception is pending: its
\* task goes on to the end, where the record, while in the table, is
\* completed and carries a result.  Both processing modes.
C12_CommentFailureHarmless ==
  \A j \in JobIds :
    Called(j, "postComment failed") =>
      /\ MediaTransferred(j) /\ Called(j, "createVersionStack ok")
      /\ thrown[j] = Undefined
      /\ pc[j] \in {"l_finally", "r_unlink", "done"}
      /\ j \in jobs => rec[j].status \in {"processing", "completed"}
      /\ j \in jobs /\ pc[j] \in {"l_finally", "done"} =>
           rec[j].status = "completed" /\ rec[j].result # Undefined

C12_Witness ==
  \E j \in JobIds :
    /\ Called(j, "postComment failed")
    /\ mode = "remote"
    /\ pc[j] = "done"
    /\ j \in jobs
    /\ rec[j].status = "completed"

C12_WitnessLocal ==
  \E j \in JobIds :
    /\ Called(j, "postComment failed")
    /\ mode = "local"
    /\ pc[j] = "done"
    /\ j \in jobs
    /\ rec[j].status = "completed"

\* what the upload phase of a job did when all of it was done, in order
UploadDone(j) ==
  /\ MediaTransferred(j)
  /\ Len(events[j]) = Chunks + 2
  /\ events[j][Chunks + 1] = "createVersionStack ok"
  /\ events[j][Chunks + 2] \in {"postComment ok", "postComment failed"}

\* C13: a job's record is completed only when, in this order, every chunk
\* of the output was transferred with success, the version stack was created
\* and the comment was attempted; a job whose version stack creation failed
\* is never completed, and failed once its task has ended.
C13_CompletedAfterUpload ==
  \A j \in JobIds :
    /\ j \in jobs /\ rec[j].status = "completed" => UploadDone(j)
    /\ Called(j, "createVersionStack failed") =>
         /\ j \in jobs => rec[j].status # "completed"
         /\ j \in jobs /\ pc[j] = "done" => rec[j].status = "failed"

C13_Witness ==
  \E j, k \in JobIds :
    /\ j \in jobs /\ rec[j].status = "completed" /\ UploadDone(j)
    /\ k \in jobs /\ Called(k, "createVersionStack failed")
    /\ pc[k] = "done" /\ rec[k].status = "failed"

----------------------------------------------------------------------------
\* LUT deletion during a job

\* the task of job j has resolved its LUT and ffmpeg has not yet read it
BeforeLutRead(j) ==
  /\ lutPath[j] # Undefined
  /\ pc[j] \in {"l_mkdir", "l_download", "l_probe", "a_mkdir", "a_copy",
               "a_probe", "a_ffmpeg", "r_access", "r_asset", "r_ffmpeg"}

\* C14: whatever deletion of LUTs happens after a job's getLUT has resolved
\* and before its transcode has read the LUT file, the job goes on as without
\* the deletion: the file its lutPath names is there to be read.
C14_DeletionInvisible ==
  \A j \in JobIds : BeforeLutRead(j) => LutFileExists(j)

\* a soft delete alone leaves the file of a resolved LUT in place
SoftDeleteInvisible ==
  \A j \in JobIds :
    BeforeLutRead(j) /\ ~LutFileExists(j) =>
      lutPath[j] \in deleting \/ lutPath[j] \notin DOMAIN luts

----------------------------------------------------------------------------
\* createLUT

\* the call of d began after the call of c had returned, with the same bytes
Sequential(c, d) ==
  /\ calls[d].pc = "returned"
  /\ c \in calls[d].after
  /\ calls[c].buffer = calls[d].buffer

\* the LUT l has not been hard-deleted, nor is being
Kept(l) == l \in DOMAIN luts /\ l \in DOMAIN lutFiles /\ l \notin deleting

\* C15: two calls of createLUT one after the other with identical bytes,
\* whatever their names, return the same id, that of a descriptor with the
\* hash of the bytes; while that LUT is not hard-deleted the registry holds
\* exactly one entry with this hash and the store exactly one file with
\* these bytes.
C15_SequentialIdempotent ==
  \A c, d \in Callers :
    Sequential(c, d) /\ Kept(calls[c].ret) =>
      /\ calls[d].ret = calls[c].ret
      /\ luts[calls[d].ret].hash = Hash(calls[d].buffer)
      /\ {l \in DOMAIN luts : luts[l].hash = Hash(calls[d].buffer)}
           = {calls[c].ret}
      /\ {l \in DOMAIN lutFiles : lutFiles[l] = calls[d].buffer}
           = {calls[c].ret}

C15_Witness ==
  \E c, d \in Callers :
    /\ Sequential(c, d) /\ Kept(calls[c].ret)
    /\ calls[c].name # calls[d].name
    /\ calls[c].lutId = calls[c].ret
    /\ calls[d].ret = calls[c].ret

\* C16: under every interleaving of concurrent calls of createLUT no two
\* entries of the registry have the same hash, and no two stored files the
\* same content.
C16_NoDuplicateHash ==
  /\ \A l, m \in DOMAIN luts : luts[l].hash = luts[m].hash => l = m
  /\ \A l, m \in DOMAIN lutFiles : lutFiles[l] = lutFiles[m] => l = m

----------------------------------------------------------------------------
\* deleteLUT

\* the entries and the files other than those of l are what they were
OthersUnchanged(l) ==
  /\ DOMAIN luts' \ {l} = DOMAIN luts \ {l}
  /\ \A m \in DOMAIN luts \ {l} : luts'[m] = luts[m]
  /\ DOMAIN lutFiles' \ {l} = DOMAIN lutFiles \ {l}
  /\ \A m \in DOMAIN lutFiles \ {l} : lutFiles'[m] = lutFiles[m]

\* the step of deleteLUT(l, true) that ends its work on the registry
HardDeleted(l) ==
  \/ DeleteLUTHard(l) /\ l \notin DOMAIN lutFiles
  \/ DeleteLUTHardDone(l)

SoftDeleteEffect(l) ==
  DeleteLUTSoft(l) =>
    /\ l \notin listLUTs(luts', FALSE)
    /\ l \in listLUTs(luts', TRUE)
    /\ luts'[l].deletedAt # Null
    /\ l \in DOMAIN lutFiles' <=> l \in DOMAIN lutFiles
    /\ OthersUnchanged(l)

HardDeleteEffect(l) ==
  /\ DeleteLUTHard(l) => OthersUnchanged(l)
  /\ HardDeleted(l) =>
       /\ l \notin listLUTs(luts', FALSE)
       /\ l \notin listLUTs(luts', TRUE)
       /\ l \notin DOMAIN lutFiles'
       /\ OthersUnchanged(l)

\* C17: after a soft deleteLUT the LUT is absent from listLUTs(false) and
\* present in listLUTs(true) with a deletedAt that is not null; after a hard
\* deleteLUT it is absent from both listings and its file is gone; either
\* way every other entry and every other file is left as it was.
C17_DeleteEffects ==
  [][\A l \in LutIds : SoftDeleteEffect(l) /\ HardDeleteEffect(l)]_vars

C17_Witness ==
  /\ "lut_1" \notin DOMAIN luts \cup DOMAIN lutFiles \cup deleting
  /\ \E l, m \in DOMAIN luts :
       /\ luts[l].deletedAt # Null /\ l \in DOMAIN lutFiles
       /\ luts[m].deletedAt = Null /\ m \in DOMAIN lutFiles

----------------------------------------------------------------------------
\* validateLUT

\* the size directives of a file, in order
SizeDirectives(file) ==
  SelectSeq(file.header,
            LAMBDA line : line.word \in {"LUT_3D_SIZE", "LUT_1D_SIZE"})

\* the file declares a size (by its last size directive) that is a number
\* from 2 to 256, and has as many data rows as that size asks for
WellSized(file) ==
  /\ SizeDirectives(file) # <<>>
  /\ LET d == SizeDirectives(file)[Len(SizeDirectives(file))]
         n == parseInt(d.tok)
     IN /\ ~n.nan
        /\ n.val \in 2..256
        /\ file.rows = (IF d.word = "LUT_3D_SIZE" THEN n.val * n.val * n.val
                                                  ELSE n.val)

\* the declared size is a number outside 2..256
OutOfRange(file) ==
  /\ SizeDirectives(file) # <<>>
  /\ LET n == parseInt(SizeDirectives(file)[Len(SizeDirectives(file))].tok)
     IN ~n.nan /\ n.val \notin 2..256

\* the declared size is a number and the rows are not as many as it asks for
Mismatched(file) ==
  /\ SizeDirectives(file) # <<>>
  /\ LET d == SizeDirectives(file)[Len(SizeDirectives(file))]
         n == parseInt(d.tok)
     IN /\ ~n.nan
        /\ file.rows # (IF d.word = "LUT_3D_SIZE" THEN n.val * n.val * n.val
                                                  ELSE n.val)

\* C18: validateLUT answers valid = true only for a file whose declared size
\* n is within 2..256 and whose data rows number n^3 (3D) or n (1D); a row
\* count that does not match is answered valid = false with the data count
\* error, and a size outside the range valid = false whatever the row count.
C18_ValidOnlyIfWellSized ==
  ret.done =>
    /\ ret.valid => WellSized(arg)
    /\ Mismatched(arg) =>
         ~ret.valid /\ "Data point count mismatch" \in ret.errors
    /\ OutOfRange(arg) => ~ret.valid /\ "Invalid LUT size" \in ret.errors

C18_Witness ==
  /\ ret.done
  /\ ret.valid
  /\ arg.rows = 16777216

\* C19: validateLUT accepts only a file with exactly one size directive.
C19_ExactlyOneSizeDirective ==
  ret.done /\ ret.valid => Len(SizeDirectives(arg)) = 1

\* a file without a size directive is rejected
NoDirectiveRejected ==
  ret.done /\ SizeDirectives(arg) = <<>> =>
    ~ret.valid /\ "Missing LUT size declaration" \in ret.errors

----------------------------------------------------------------------------
\* verifySignature

\* the request carries a timestamp that is a number
Timestamped(req) ==
  req.timestampHeader # <<>> /\ ~parseInt(req.timestampHeader).nan

\* the request carries, under one of the two algorithms, the digest of its
\* own timestamp and body under the server's secret
CorrectDigest(req) ==
  /\ Timestamped(req)
  /\ req.rawBody # None
  /\ req.signatureHeader.present
  /\ req.signatureHeader.algorithm \in {"v0", "sha256"}
  /\ req.signatureHeader.digest =
       Hmac(Secret,
            IF req.signatureHeader.algorithm = "v0" THEN "v0" ELSE "std",
            parseInt(req.timestampHeader).val, req.rawBody)

\* |now - timestamp| of a request
Age(req) == Abs(req.now - parseInt(req.timestampHeader).val)

\* C20: a request with the correct digest is accepted exactly when its
\* timestamp is at most 300 seconds from the server's clock, in the past or
\* in the future (299 and 300 accepted, 301 rejected); a request without the
\* correct digest is rejected whatever its timestamp.
C20_FreshnessWindow ==
  ret.done =>
    /\ CorrectDigest(arg) => (ret.status = "next" <=> Age(arg) <= 300)
    /\ ~CorrectDigest(arg) => ret.status # "next"

C20_Witness ==
  /\ ret.done
  /\ CorrectDigest(arg)
  /\ arg.now - parseInt(arg.timestampHeader).val = 300
  /\ ret.status = "next"

\* the cases the window is made of are all there
C20_WitnessFuture ==
  /\ ret.done
  /\ CorrectDigest(arg)
  /\ parseInt(arg.timestampHeader).val - arg.now = 301
  /\ ret.status = "401"

\* the characters are, as a whole, the decimal representation of an integer
WholeDecimal(tok) ==
  LET digits == IF tok # <<>> /\ Head(tok) = "-" THEN Tail(tok) ELSE tok
  IN digits # <<>> /\ \A i \in DOMAIN digits : digits[i] \in Digits

\* a request without a signature header or without a timestamp header
HeaderMissing(req) ==
  ~req.signatureHeader.present \/ req.timestampHeader = <<>>

\* C21: verifySignature answers 401 to every request that lacks the
\* signature header or the timestamp header, and to every request whose
\* timestamp header is not as a whole the decimal representation of an
\* integer.
C21_MalformedTimestampRejected ==
  ret.done =>
    /\ HeaderMissing(arg) => ret.status = "401"
    /\ ~WholeDecimal(arg.timestampHeader) => ret.status = "401"

\* the part of it that holds: missing headers, and a timestamp header that
\* does not begin with a number
UnparsableRejected ==
  ret.done /\ (HeaderMissing(arg) \/ parseInt(arg.timestampHeader).nan) =>
    ret.status = "401"

\* what a request to the trigger route must not touch when it is rejected:
\* the job table, the tasks and their files, the LUT registry and its files
ServiceState ==
  <<jobs, rec, request, pc, thrown, trigger, fs, mtime, lutPath, events,
    luts, lutFiles>>

\* C22: a request to POST /webhooks/frameio/custom-action that
\* verifySignature rejects leaves the job table and the LUT registry as they
\* were and starts no pipeline activity.
C22_RejectedLeavesNoTrace ==
  [][\A req \in WebhookRequests, hasLutId \in BOOLEAN,
        j \in TimedJobIds, a \in AssetIds :
       WebhookCustomAction(req, hasLutId, j, a)
         /\ verifySignature(req).status # "next"
       => UNCHANGED ServiceState]_vars

C22_Witness ==
  /\ ret.done
  /\ ret.status = "401"
  /\ ret.error = "Invalid signature"
  /\ jobs # {}

\* the prefix and the digest of the signature a named request carries,
\* under whichever name
Carried(named) ==
  IF named.frameioSignature.present THEN named.frameioSignature
                                    ELSE named.archonSignature

\* the request gets as far as the choice of the canonical string
ReachesDigest(req) ==
  /\ ~HeaderMissing(req)
  /\ ~parseInt(req.timestampHeader).nan
  /\ Age(req) <= 300
  /\ req.rawBody # None

\* the scheme a digest was made under fits the prefix
SchemeOf(prefix) ==
  CASE prefix = "v0" -> "v0" [] prefix = "sha256" -> "std"
    [] OTHER -> "none"

\* C23: the canonical string is chosen by the prefix of the signature
\* header alone, whichever header name carried it: v0 takes
\* 'v0:<timestamp>:<body>', sha256 takes '<timestamp>.<body>', any other
\* prefix is rejected, and a digest made under one scheme is rejected under
\* the prefix of the other.
C23_SchemeByPrefix ==
  ret.done /\ ReachesDigest(Headers(arg)) =>
    LET sig == Carried(arg)
        req == Headers(arg)
    IN /\ ret.status = "next" <=>
            sig.digest = Hmac(Secret, SchemeOf(sig.algorithm),
                              parseInt(req.timestampHeader).val, req.rawBody)
       /\ sig.algorithm \notin {"v0", "sha256"} => ret.status = "401"
       /\ sig.digest.format # SchemeOf(sig.algorithm) => ret.status = "401"

C23_Witness ==
  /\ ret.done
  /\ ret.status = "next"
  /\ ~arg.frameioSignature.present
  /\ arg.archonSignature.algorithm = "v0"
  /\ arg.frameioTimestamp # <<>>

\* a digest of the sha256 scheme under the v0 prefix, carried by the
\* Frame.io header
C23_WitnessCross ==
  /\ ret.done
  /\ ret.status = "401"
  /\ ReachesDigest(Headers(arg))
  /\ arg.frameioSignature.present
  /\ arg.frameioSignature.algorithm = "v0"
  /\ arg.frameioSignature.digest = Hmac(Secret, "std", 1000, "body_1")

\* the middleware got as far as comparing digests
DigestCompared(r) ==
  r.done /\ (r.status = "next" \/ r.error = "Invalid signature")

\* C24: for every request that reaches the digest step, with or without a
\* raw body stored by captureRawBody, the digest compared against is the one
\* of the bytes received on the wire, never of a re-serialization of the
\* parsed body: the request passes exactly when it carries the digest of its
\* wire bytes.
C24_DigestOverWireBytes ==
  DigestCompared(ret) =>
    (ret.status = "next" <=>
       arg.signatureHeader.digest
         = Hmac(Secret, "v0", parseInt(arg.timestampHeader).val,
                arg.wire.bytes))

\* where captureRawBody stored the body, the digest is over the wire bytes
RawBodyOverWireBytes ==
  DigestCompared(ret) /\ bodyParsers(arg.wire, arg.unparsed).rawBody # None =>
    (ret.status = "next" <=>
       arg.signatureHeader.digest
         = Hmac(Secret, "v0", parseInt(arg.timestampHeader).val,
                arg.wire.bytes))

\* The checks of verifySignature, each by itself: whether the request fails
\* it, and the response that check gives.
Stale(req) == Timestamped(req) /\ Age(req) > 300

Unsupported(req) ==
  req.signatureHeader.present
    /\ req.signatureHeader.algorithm \notin {"v0", "sha256"}

Mismatch(req) ==
  /\ req.signatureHeader.present /\ Timestamped(req) /\ req.rawBody # None
  /\ req.signatureHeader.digest
       # Hmac(Secret, SchemeOf(req.signatureHeader.algorithm),
              parseInt(req.timestampHeader).val, req.rawBody)

ChecksInOrder(req) ==
  << [fails |-> HeaderMissing(req), status |-> "401"],
     [fails |-> ~HeaderMissing(req) /\ ~Timestamped(req), status |-> "401"],
     [fails |-> Stale(req), status |-> "401"],
     [fails |-> req.rawBody = None, status |-> "500"],
     [fails |-> Unsupported(req), status |-> "401"],
     [fails |-> Mismatch(req), status |-> "401"] >>

ErrorOfCheck ==
  << "Missing signature or timestamp header", "Invalid timestamp header",
     "Request timestamp too old", "Unable to verify signature",
     "Invalid signature algorithm", "Invalid signature" >>

Failing(req) == {i \in 1..6 : ChecksInOrder(req)[i].fails}

FirstFailing(req) == CHOOSE i \in Failing(req) : \A k \in Failing(req) : i <= k

\* the request generateSignature makes of a body at the clock's second
Generated(req) ==
  /\ req.rawBody # None
  /\ req.signatureHeader = generateSignature(req.rawBody, req.now).signatureHeader
  /\ req.timestampHeader = generateSignature(req.rawBody, req.now).timestampHeader

\* C25: every request has exactly one outcome, that of the first check it
\* fails in the order missing header (401), unparsable timestamp (401),
\* stale timestamp (401), missing body (500), unsupported prefix (401),
\* digest mismatch (401): one error response and no call of next(); or, no
\* check failing, one call of next() and no response.  A request signed by
\* generateSignature at the current second is passed on.
C25_FirstFailingCheckDecides ==
  ret.done =>
    /\ ret.written + ret.nextCalls = 1
    /\ IF Failing(arg) # {}
         THEN /\ ret.written = 1
              /\ ret.status = ChecksInOrder(arg)[FirstFailing(arg)].status
              /\ ret.error = ErrorOfCheck[FirstFailing(arg)]
         ELSE ret.nextCalls = 1 /\ ret.status = "next"
    /\ Generated(arg) => ret.status = "next"

C25_Witness ==
  /\ ret.done
  /\ arg.rawBody = None
  /\ Unsupported(arg)
  /\ ret.status = "500"

C25_WitnessGenerated ==
  ret.done /\ Generated(arg) /\ ret.status = "next"

----------------------------------------------------------------------------
\* uploadMedia

RECURSIVE SumTo(_, _)
SumTo(plan, n) == IF n = 0 THEN 0 ELSE SumTo(plan, n - 1) + plan[n]

\* the bytes sent by the first n transfers
RECURSIVE Sent(_, _)
Sent(transfers, n) ==
  IF n = 0 THEN 0 ELSE Sent(transfers, n - 1) + transfers[n].length

\* C26: the chunks are transferred in the order of the plan, at most one at
\* a time; transfer i carries the bytes of the file from o_i, the sum of
\* the plan's sizes before i, up to o_i + s_i (or the end of the file), so
\* that the ranges start at 0 and follow each other without gap or overlap;
\* the percentage reported after chunk i is the share of the file sent so
\* far.
C26_ChunksInPlanOrder ==
  /\ ret.inFlight <= 1
  /\ \A n \in DOMAIN ret.transfers :
       LET t == ret.transfers[n]
       IN /\ t.chunk = n
          /\ t.offset = SumTo(arg.plan, n - 1)
          /\ t.offset + t.length
               = Min(SumTo(arg.plan, n), arg.fileSize)
          /\ t.length > 0
  /\ \A n \in DOMAIN ret.progress :
       /\ ret.progress[n].num = 100 * Sent(ret.transfers, n)
       /\ ret.progress[n].den = arg.fileSize

\* C26 as stated: every transfer carries as many bytes as the plan gives
\* for its chunk.
C26_ExactPlanRanges ==
  \A n \in DOMAIN ret.transfers :
    /\ ret.transfers[n].offset = SumTo(arg.plan, n - 1)
    /\ ret.transfers[n].length = arg.plan[n]

C26_Witness ==
  /\ ret.done
  /\ ret.outcome = "resolved"
  /\ Len(ret.transfers) = 3
  /\ ret.transfers[3].offset = 3
  /\ ret.progress[3].num = 100 * arg.fileSize

\* the upload of job j stopped at a chunk whose PUT failed: that chunk is
\* the last call the upload phase made
StoppedAtFailedChunk(j) ==
  /\ Len(events[j]) <= Chunks
  /\ events[j][Len(events[j])] = "chunk failed"
  /\ \A i \in 1..(Len(events[j]) - 1) : events[j][i] = "chunk ok"

C27_WitnessLocal ==
  \E j \in JobIds :
    /\ mode = "local"
    /\ Called(j, "chunk failed")
    /\ pc[j] = "done" /\ j \in jobs /\ rec[j].status = "failed"

\* inside uploadMedia: a PUT that failed is the last transfer, the call
\* rejects with the error of that PUT and the file descriptor is closed
FailedChunkEndsUpload ==
  \A n \in DOMAIN ret.transfers :
    (arg.failAt = n /\ (n < Len(ret.transfers) \/ ret.phase # "fetch")) =>
      /\ Len(ret.transfers) = n
      /\ ret.done
      /\ ret.outcome = "rejected"
      /\ ret.error = ChunkError(arg)
      /\ ret.fd = "closed"
      /\ ret.inFlight = 0

FailedChunkEndsUploadWitness ==
  /\ arg.failAt = 2 /\ arg.failure = "status"
  /\ ret.done /\ ret.outcome = "rejected" /\ Len(ret.transfers) = 2

----------------------------------------------------------------------------
\* Size limit of the source

\* the response declares a length above the maximum
Oversize(src) ==
  src.contentLength # Null /\ src.contentLength > MAX_FILE_SIZE_BYTES

\* C28: on the paths the job coordinator uses, a source whose declared
\* length exceeds MAX_FILE_SIZE_BYTES is never written to disk completely
\* and never transcoded: its acquisition ends rejected.
C28_OversizeNeverStored ==
  (arg.path \in {"downloadAsset", "remote"} /\ Oversize(arg)) =>
    /\ ret.written < arg.body
    /\ ret.transcoded = 0
    /\ ret.done => ret.outcome = "rejected"

\* downloadMedia, which the coordinator never reaches, does refuse such a
\* source before it writes anything
DownloadMediaRefusesOversize ==
  (arg.path = "downloadMedia" /\ Oversize(arg)) =>
    /\ ret.written = 0
    /\ ret.done => ret.outcome = "rejected" /\ ret.error = "File too large"

----------------------------------------------------------------------------
\* Progress reported by applyLUT

\* C29: during one applyLUT run, whatever time tokens the transcoder emits,
\* the percentages delivered to onProgress, acquisition phase and transcode
\* phase together, never decrease and all lie in [0, 100].
C29_ProgressMonotone ==
  \A n \in DOMAIN ret.delivered :
    /\ ~Greater(Frac(0, 1), ret.delivered[n])
    /\ ~Greater(ret.delivered[n], Frac(100, 1))
    /\ n > 1 => ~Greater(ret.delivered[n - 1], ret.delivered[n])

\* tokens out of order, repeated and beyond the duration, after a download
C29_Witness ==
  /\ ret.done
  /\ arg.inputUrl = "http"
  /\ arg.totalDuration = 2
  /\ arg.tokens = <<1, 1, 3>>
  /\ Len(ret.delivered) = 4
  /\ ret.delivered[4] = Frac(1000, 10)

C29_WitnessOutOfOrder ==
  /\ ret.done
  /\ arg.inputUrl = "file"
  /\ arg.totalDuration = 2
  /\ arg.tokens = <<2, 1, 3>>
  /\ Len(ret.delivered) = 3

----------------------------------------------------------------------------
\* Exit code of the transcoder

\* the errors of a transcode run that ended with a non-zero exit code
ExitErrors ==
  {"FFmpeg exited with code 1", "FFmpeg exited with code 1: errorOutput"}

\* C30: when the transcoder exits with a non-zero code, in either mode, the
\* error recorded on the failed job contains the text captured from the
\* subprocess's stderr.
C30_ExitErrorHasStderr ==
  \A j \in jobs :
    (pc[j] = "done" /\ rec[j].error \in ExitErrors) =>
      /\ rec[j].status = "failed"
      /\ rec[j].error = "FFmpeg exited with code 1: errorOutput"

\* in remote mode it does
ExitErrorHasStderrRemote ==
  mode = "remote" => C30_ExitErrorHasStderr

\* in both modes the job is failed with the error of the run
ExitFailsJob ==
  \A j \in jobs :
    (pc[j] = "done" /\ thrown[j] \in ExitErrors) =>
      rec[j].status = "failed" /\ rec[j].error = thrown[j]

----------------------------------------------------------------------------
\* The filter graph

\* the positions of the stages of one kind in a graph
StagesOf(graph, kind) == {n \in DOMAIN graph : graph[n].kind = kind}

Partial(strength) == strength # Null /\ strength > 0 /\ strength < FullStrength

\* C31: with the other options equal, the graph for strength 1.0 is the
\* graph for strength unset and has no split and no blend stage; for a
\* strength strictly between 0 and 1 the graph has exactly one split stage
\* and exactly one blend stage.
C31_BlendOnlyWhenPartial ==
  ret.done =>
    /\ arg.strength \in {Null, FullStrength} =>
         /\ ret.graph = buildLUTFilterGraph([arg EXCEPT !.strength = Null])
         /\ StagesOf(ret.graph, "split") = {}
         /\ StagesOf(ret.graph, "blend") = {}
    /\ Partial(arg.strength) =>
         /\ Cardinality(StagesOf(ret.graph, "split")) = 1
         /\ Cardinality(StagesOf(ret.graph, "blend")) = 1

C31_Witness ==
  /\ ret.done
  /\ arg.strength = FullStrength
  /\ arg.inputColorSpace = "SLog3"
  /\ arg.outputColorSpace = "P3D65"
  /\ Len(ret.graph) = 3

C31_WitnessPartial ==
  /\ ret.done
  /\ arg.strength = 5
  /\ Cardinality(StagesOf(ret.graph, "blend")) = 1

\* the input spaces that have an entry towards Rec709 in the table
KnownInputs == {c \in DOMAIN conversions : "Rec709" \in DOMAIN conversions[c]}

\* C32: whatever the strength, the graph has a conversion stage before the
\* LUT stage when inputColorSpace is a known space other than Rec709, and a
\* conversion stage after the LUT stage when outputColorSpace is given and
\* other than Rec709.
C32_ConversionsWhateverStrength ==
  ret.done =>
    /\ arg.inputColorSpace \in KnownInputs =>
         \E c \in StagesOf(ret.graph, "colorspace") :
           \A l \in StagesOf(ret.graph, "lut3d") : c < l
    /\ (Truthy(arg.outputColorSpace) /\ arg.outputColorSpace # "Rec709") =>
         \E c \in StagesOf(ret.graph, "colorspace") :
           \A l \in StagesOf(ret.graph, "lut3d") : c > l

\* at full strength or with none given, the conversions are there
ConversionsWhenUnblended ==
  arg.strength \in {Null, FullStrength} => C32_ConversionsWhateverStrength

\* C33: for an input colour space without an entry towards Rec709 (HLG,
\* PQ, Linear, Unknown) the graph has no conversion stage before the LUT
\* stage: the signal reaches the LUT unconverted.
C33_UnknownInputUnconverted ==
  (ret.done /\ arg.inputColorSpace \in {"HLG", "PQ", "Linear", "Unknown"}) =>
    \A c \in StagesOf(ret.graph, "colorspace") :
      \E l \in StagesOf(ret.graph, "lut3d") : l < c

----------------------------------------------------------------------------
\* The form of the LUTs

\* C34: the form answered to a verified trigger without a lutId offers
\* exactly the LUTs that are in the registry and not deleted when it is
\* built, one {name, value = id} pair each, and creates no job record; a
\* verified trigger with a lutId creates exactly one new job record and
\* leaves every existing record as it was.
C34_FormListsLiveLUTs ==
  [][/\ (ret'.done /\ ret'.status = "200" /\ ret' # ret) =>
          /\ ret'.options =
               {[name |-> luts[l].name, value |-> l] :
                  l \in {k \in DOMAIN luts : luts[k].deletedAt = Null}}
          /\ jobs' = jobs /\ rec' = rec
     /\ ret' = Handling => jobs' = jobs /\ rec' = rec
     /\ \A j \in JobIds :
          (trigger'[j] = "resolved" /\ trigger[j] # "resolved") =>
            /\ ret'.status = "next"
            /\ j \notin jobs
            /\ jobs' = jobs \cup {j}
            /\ rec'[j].status # "none"
            /\ \A k \in JobIds \ {j} : rec'[k] = rec[k]]_vars

\* a form answered with one LUT offered while another is soft-deleted, and
\* with a job record in the table
C34_Witness ==
  /\ ret.done
  /\ ret.status = "200"
  /\ Cardinality(ret.options) = 1
  /\ \E l \in DOMAIN luts : luts[l].deletedAt # Null
  /\ jobs # {}

C34_WitnessTwoJobs ==
  /\ jobs = JobIds
  /\ ret.status = "next"
  /\ ret.done

----------------------------------------------------------------------------
\* Retention of job records

\* C35: cleanupOldJobs removes exactly the records created more than 24
\* hours before the current time, whatever their status, and changes no
\* record; with the clock advancing and the hourly timer firing, every job
\* record is eventually removed and is absent from then on, so that
\* getJobStatus finds none.
C35_PurgedAfterADay ==
  /\ [][CleanupOldJobs =>
          /\ jobs' = {j \in jobs : now - rec[j].createdAt <= ONE_DAY}
          /\ rec' = rec]_vars
  /\ [][\A j \in JobIds :
          (j \in jobs /\ j \notin jobs') =>
            now - rec[j].createdAt > ONE_DAY]_vars
  /\ \A j \in TimedJobIds : (j \in jobs) ~> [](j \notin jobs)
  /\ [][\A j \in TimedJobIds :
          (GetJobStatus(j) /\ j \notin jobs) => heldRef' = NoRef]_vars

\* the record of a job was removed while its pipeline was running, and a
\* status read found none
C35_Witness ==
  \E j \in TimedJobIds :
    /\ pc[j] \notin {"none", "done"}
    /\ j \notin jobs
    /\ rec[j].status = "processing"
    /\ now - rec[j].createdAt > ONE_DAY
    /\ heldRef = NoRef

C35_WitnessKept ==
  \E j \in TimedJobIds :
    /\ j \in jobs
    /\ now - rec[j].createdAt = ONE_DAY
    /\ rec[j].status = "completed"

----------------------------------------------------------------------------
\* Completeness of an upload

\* C36: when uploadMedia resolves, the bytes transferred add up to the size
\* of the file and the last percentage reported is 100, whatever the plan,
\* also when its sizes sum to less or to more than the size of the file.
C36_ResolvedMeansWholeFile ==
  (ret.done /\ ret.outcome = "resolved") =>
    /\ Sent(ret.transfers, Len(ret.transfers)) = arg.fileSize
    /\ arg.fileSize > 0 =>
         /\ ret.progress # <<>>
         /\ ret.progress[Len(ret.progress)].num
              = 100 * ret.progress[Len(ret.progress)].den

\* it does when the plan covers the file
WholeFileWhenPlanCovers ==
  SumTo(arg.plan, Len(arg.plan)) >= arg.fileSize => C36_ResolvedMeansWholeFile

----------------------------------------------------------------------------
\* Liveness of a created LUT

\* the call c of createLUT returns in this step
Returns(c) == calls[c].pc # "returned" /\ calls'[c].pc = "returned"

\* C37: the descriptor a call of createLUT returns is live when it is
\* returned: getLUT finds it and listLUTs(false) has it, also when the same
\* bytes were ingested before and that entry has been soft-deleted since.
C37_CreatedIsLive ==
  [][\A c \in Callers :
       Returns(c) =>
         /\ getLUT(luts', calls'[c].ret) = calls'[c].ret
         /\ calls'[c].ret \in listLUTs(luts', FALSE)]_vars

\* the same for a call that found no entry with its hash and no deleteLUT
\* running meanwhile
NewEntryIsLive ==
  [][\A c \in Callers :
       (Returns(c) /\ calls[c].pc = "save"
          /\ calls[c].lutId \in DOMAIN luts
          /\ luts[calls[c].lutId].deletedAt = Null
          /\ calls[c].lutId \notin deleting) =>
         /\ getLUT(luts', calls'[c].ret) = calls'[c].ret
         /\ calls'[c].ret \in listLUTs(luts', FALSE)]_vars

----------------------------------------------------------------------------
\* A job without its LUT

\* the LUTs that are in the registry and not soft-deleted
LiveLuts == {l \in DOMAIN luts : luts[l].deletedAt = Null}

\* C38: a job whose LUT is missing from the registry or soft-deleted when
\* the job resolves it ends failed with the error 'LUT not found'; it has
\* downloaded, transcoded and uploaded nothing and created no file or
\* directory.  A job that goes on has resolved a LUT that was live.
C38_MissingLutFailsClean ==
  /\ [](\A j \in JobIds :
          thrown[j] = "LUT not found" =>
            /\ pc[j] \in {"rejected", "done"}
            /\ j \in jobs
            /\ rec[j].status = "failed"
            /\ rec[j].error = "LUT not found"
            /\ lutPath[j] = Undefined
            /\ events[j] = <<>>
            /\ \A p \in WritePaths(j) : ~Exists(fs, p))
  /\ [][\A j \in JobIds :
          (pc[j] = "getLUT" /\ pc'[j] # "getLUT") =>
            IF pc'[j] = "rejected"
              THEN thrown'[j] = "LUT not found" /\ LutIds \ LiveLuts # {}
              ELSE lutPath'[j] \in LiveLuts]_vars

\* the LUT was soft-deleted after the job was started, and the job has ended
C38_Witness ==
  \E j \in JobIds :
    /\ thrown[j] = "LUT not found"
    /\ pc[j] = "done"
    /\ rec[j].status = "failed"
    /\ \E l \in DOMAIN luts : luts[l].deletedAt # Null

----------------------------------------------------------------------------
\* The pending status

\* C39: the record of a job is set to processing in the step that creates
\* it: when the job id is handed back the status is processing, no record is
\* ever pending where another handler can run, and no status read returns
\* a pending record.
C39_NeverPending ==
  /\ \A j \in JobIds : rec[j].status # "pending"
  /\ \A j \in JobIds :
       trigger[j] = "resolved" => j \in jobs /\ rec[j].status = "processing"
  /\ heldRef # NoRef => rec[heldRef].status # "pending"

\* a status read right after the trigger was answered, before any stage
C39_Witness ==
  \E j \in jobs :
    /\ heldRef = j
    /\ pc[j] = "getLUT"
    /\ trigger[j] = "responded"
    /\ rec[j].status = "processing"

----------------------------------------------------------------------------
\* A record purged under a running job

\* the record of job j has been removed from the table
Purged(j) == pc[j] # "none" /\ j \notin jobs

\* C40: once cleanupOldJobs has removed the record of a job whose pipeline
\* is running, the record never comes back and no later status update
\* writes it, a status read finds none, the task always has its next step
\* to take (unless the local transcoder stalls), and it leaves the local try
\* block only through the finally block and its fs.rm.
C40_PurgedStaysAbsent ==
  /\ [][\A j \in JobIds :
          Purged(j) =>
            /\ j \notin jobs'
            /\ rec'[j] = rec[j]
            /\ (heldRef' # heldRef => heldRef' = NoRef)
            /\ (mode = "local" /\ pc[j] \notin {"getLUT", "rejected", "done"}
                  /\ pc'[j] \in {"rejected", "done"})
                 => pc[j] = "l_finally"]_vars
  /\ [](\A j \in JobIds :
          (Purged(j) /\ pc[j] \notin {"done", "a_stalled"}) =>
            ENABLED JobStep(j))

\* the record was purged while the job was in its pipeline, and the job has
\* run to its end without an error, its working directory removed
C40_Witness ==
  \E j \in JobIds :
    /\ Purged(j)
    /\ mode = "local"
    /\ pc[j] = "done"
    /\ thrown[j] = Undefined
    /\ rec[j].status \in {"processing", "uploading"}
    /\ ~Exists(fs, tempDir(j))

C40_WitnessFailed ==
  \E j \in JobIds :
    /\ Purged(j)
    /\ pc[j] = "done"
    /\ thrown[j] # Undefined
    /\ rec[j].status # "failed"

====
